---- MODULE Spec2Model ----
(***************************************************************************)
(* Model of the off-chain matcher of the permissionless on-chain order     *)
(* book: the order-book simulator (orderbook_simulator.rs), the            *)
(* Dispatcher's hint computation (matcher.rs, types.rs, state.rs) and the  *)
(* Reconciler's event handlers and cold sync (sync.rs).                    *)
(*                                                                         *)
(* U256 values are modelled by naturals; the model's bounds keep every sum *)
(* far below 2^256, so no arithmetic wraps or panics on overflow.          *)
(***************************************************************************)
EXTENDS Integers, Sequences, FiniteSets, TLC

\* ------------------------------------------------------------------ bounds
MaxOrders == 3
MaxDeepOrders == 4
MaxPrice == 3
MaxAmount == 2
MaxQueue == 2
MaxBatchSize == 2
MaxTx == 2
MaxBlock == 4
MaxLog == 2
MaxTag == 2
IterationCap == 1
CleanupEvery == 2
cleanup_timeout == 1
MaxTime == 6

\* ------------------------------------------------------- program constants
EMPTY == 0
\* Stand-in for the bid bit (1 << 255) of a composite key: a power of two
\* above every price of the model.
BidBit == 1024
\* max_iterations of try_match_after_insertion
MaxIterations == 50

Prices == 1..MaxPrice
Amounts == 0..MaxAmount

VARIABLES
    book,             \* the order book: the OrderBookSimulator with its history
                      \* variables g_*; in SpecDispatcher the book the chain
                      \* holds, which order_books and price_levels read
    nextId,           \* the next fresh order id (order ids are request ids)
    last,             \* the last call: its name, price and side arguments and its result
    queued_requests,  \* GlobalState.queued_requests: request_id -> QueuedRequest
    queue_head,       \* GlobalState.queue_head
    sync_pc,          \* StateSynchronizer::run: "cold", "syncing" inside sync_historical_state,
                      \* "warm" in watch_events
    engine_pc,        \* MatchingEngine::process_batch: "tick", "calculate", "calculated";
                      \* inside step 6 of execute_batch "removed" and "head_read"
    requests,         \* process_batch: the snapshot taken by get_head_requests
    match_result,     \* process_batch: the MatchResult of calculate_insert_positions
    replica,          \* GlobalState.orderbook as watch_orderbook_events maintains it
    events,           \* the OrderBook events emitted and not yet handled, in chain order
    simulator,        \* the shared MatchSimulator: local_orderbook and pending_changes
    tx_count,         \* the number of batch transactions sent; the next one's hash is tx_count + 1
    chain_block,      \* the chain's block height
    current_block,    \* sync_historical_state: the height read by get_block_number
    synced_block,     \* StateSynchronizer.synced_block
    sequencer_events, \* the Sequencer events emitted and not yet handled, in chain order
    chain_requests,   \* the queue of the Sequencer contract as queued_requests(id)
                      \* returns it, request id i at position i, tags as numbers
    match_iterations, \* the trades the last insertion executed while matching
    now,              \* Instant::now(), counted in tick intervals of the Dispatcher
    cleanup_counter,  \* MatchingEngine::run: the ticks since the last sweep
    process,          \* main: where it stands, the handles of the two tasks, the
                      \* termination signal and the exit code
    added_request,    \* watch_sequencer_events: the id add_request has inserted and
                      \* update_queue_head has not yet made the head, or zero
    first_remaining,  \* execute_batch, step 6: the id get_head_requests(1) returned
    g_late            \* history: the ids add_request inserted between a snapshot of
                      \* the Dispatcher and the end of that batch

\* the variables of the SequencerMirror and of the Dispatcher
dvars == <<queued_requests, queue_head, sync_pc, engine_pc, requests, match_result>>

\* the variables of the Reconciler's event replay
rvars == <<replica, events>>

\* the variables of the pending set
pvars == <<simulator, tx_count>>

\* the process around the two tasks
ivars == <<added_request, first_remaining, g_late>>
xvars == <<process, ivars>>

\* the clock and the tick counter of the Dispatcher's loop
tvars == <<now, cleanup_counter>>

\* the queue the Sequencer contract holds, and the trades of an insertion
cvars == <<chain_requests, match_iterations, tvars, xvars>>

\* the block heights and the log of the Sequencer
bvars == <<chain_block, current_block, synced_block, sequencer_events, cvars>>

vars == <<book, nextId, last, queued_requests, queue_head, sync_pc, engine_pc,
          requests, match_result, replica, events, simulator, tx_count,
          chain_block, current_block, synced_block, sequencer_events, chain_requests,
          match_iterations, now, cleanup_counter, process, added_request,
          first_remaining, g_late>>

\* ----------------------------------------------------------------- helpers
Min(a, b) == IF a <= b THEN a ELSE b

EmptyMap == [x \in {} |-> 0]

RemoveKey(f, k) == [x \in (DOMAIN f) \ {k} |-> f[x]]

\* `orders.remove(&order_id)`; the history of the order's side goes with it
DropOrder(b, order_id) ==
    [b EXCEPT !.orders = RemoveKey(@, order_id), !.g_side = RemoveKey(@, order_id)]

PutKey(f, k, v) == [x \in (DOMAIN f) \cup {k} |-> IF x = k THEN v ELSE f[x]]

\* U256::saturating_sub
saturating_sub(a, b) == IF a >= b THEN a - b ELSE 0

\* price | (1 << 255) for bids, price for asks
get_price_level_key(price, is_ask) ==
    IF is_ask THEN price
    ELSE IF (price \div BidBit) % 2 = 1 THEN price ELSE price + BidBit

\* `if let Some(level) = price_levels.get_mut(&key) { level.field = v }`
SetLevel(b, key, field, v) ==
    IF key \in DOMAIN b.price_levels
    THEN [b EXCEPT !.price_levels[key][field] = v]
    ELSE b

\* `if let Some(order) = orders.get_mut(&id) { order.field = v }`
SetOrder(b, id, field, v) ==
    IF id \in DOMAIN b.orders
    THEN [b EXCEPT !.orders[id][field] = v]
    ELSE b

SideHead(b, is_ask) == IF is_ask THEN b.ask_head ELSE b.bid_head
SideTail(b, is_ask) == IF is_ask THEN b.ask_tail ELSE b.bid_tail
SetSideHead(b, is_ask, v) ==
    IF is_ask THEN [b EXCEPT !.ask_head = v] ELSE [b EXCEPT !.bid_head = v]
SetSideTail(b, is_ask, v) ==
    IF is_ask THEN [b EXCEPT !.ask_tail = v] ELSE [b EXCEPT !.bid_tail = v]
MarketHead(b, is_ask) == IF is_ask THEN b.market_ask_head ELSE b.market_bid_head
MarketTail(b, is_ask) == IF is_ask THEN b.market_ask_tail ELSE b.market_bid_tail
SetMarketHead(b, is_ask, v) ==
    IF is_ask THEN [b EXCEPT !.market_ask_head = v]
    ELSE [b EXCEPT !.market_bid_head = v]
SetMarketTail(b, is_ask, v) ==
    IF is_ask THEN [b EXCEPT !.market_ask_tail = v]
    ELSE [b EXCEPT !.market_bid_tail = v]

\* ------------------------------------------------------ OrderBookSimulator
SimOrder(id, amount, is_market, price) ==
    [id |-> id, amount |-> amount, filled_amount |-> EMPTY,
     is_market_order |-> is_market, price_level |-> price,
     next_order_id |-> EMPTY, prev_order_id |-> EMPTY]

SimPriceLevel(price) ==
    [price |-> price, total_volume |-> EMPTY, head_order_id |-> EMPTY,
     tail_order_id |-> EMPTY, next_price |-> EMPTY, prev_price |-> EMPTY]

\* OrderBookSimulator::new().  History variables the code does not keep:
\* g_side is the side each order of the table was created on, and g_excess
\* is, over the whole history, the amount filled on orders created as bids
\* minus the amount filled on orders created as asks.
NewBook ==
    [ask_head |-> EMPTY, ask_tail |-> EMPTY, bid_head |-> EMPTY, bid_tail |-> EMPTY,
     market_ask_head |-> EMPTY, market_ask_tail |-> EMPTY,
     market_bid_head |-> EMPTY, market_bid_tail |-> EMPTY,
     price_levels |-> EmptyMap, orders |-> EmptyMap,
     g_side |-> EmptyMap, g_excess |-> 0]

RECURSIVE WalkInsertPosition(_, _, _, _, _)
WalkInsertPosition(b, price, is_ask, current_price, prev_price) ==
    IF current_price = EMPTY THEN prev_price
    ELSE LET current_key == get_price_level_key(current_price, is_ask) IN
         IF current_key \in DOMAIN b.price_levels
         THEN LET level == b.price_levels[current_key]
                  should_insert_here ==
                      IF is_ask THEN price <= level.price ELSE price >= level.price
              IN IF should_insert_here THEN prev_price
                 ELSE WalkInsertPosition(b, price, is_ask, level.next_price, current_price)
         ELSE prev_price

\* find_insert_position without its walk: a new level always goes to the head
find_insert_position_no_walk(b, price, is_ask) ==
    IF get_price_level_key(price, is_ask) \in DOMAIN b.price_levels THEN price ELSE EMPTY

find_insert_position(b, price, is_ask) ==
    IF get_price_level_key(price, is_ask) \in DOMAIN b.price_levels THEN price
    ELSE IF SideHead(b, is_ask) = EMPTY THEN EMPTY
    ELSE WalkInsertPosition(b, price, is_ask, SideHead(b, is_ask), EMPTY)

insert_price_level_into_list(b, price, is_ask, insert_after_price) ==
    LET key == get_price_level_key(price, is_ask) IN
    IF insert_after_price = EMPTY
    THEN LET old_head == SideHead(b, is_ask)
             b1 == IF old_head # EMPTY
                   THEN SetLevel(SetLevel(b, get_price_level_key(old_head, is_ask),
                                          "prev_price", price),
                                 key, "next_price", old_head)
                   ELSE SetSideTail(b, is_ask, price)
         IN SetSideHead(b1, is_ask, price)
    ELSE LET insert_after_key == get_price_level_key(insert_after_price, is_ask)
             next_price == IF insert_after_key \in DOMAIN b.price_levels
                           THEN b.price_levels[insert_after_key].next_price
                           ELSE EMPTY
             b1 == SetLevel(SetLevel(b, key, "prev_price", insert_after_price),
                            key, "next_price", next_price)
             b2 == SetLevel(b1, insert_after_key, "next_price", price)
         IN IF next_price # EMPTY
            THEN SetLevel(b2, get_price_level_key(next_price, is_ask), "prev_price", price)
            ELSE SetSideTail(b2, is_ask, price)

\* find_or_create_price_level that drops its anchor and links at the head
find_or_create_price_level_at_head(b, price, is_ask, insert_after_price) ==
    LET key == get_price_level_key(price, is_ask) IN
    IF key \in DOMAIN b.price_levels THEN b
    ELSE insert_price_level_into_list(
             [b EXCEPT !.price_levels = PutKey(@, key, SimPriceLevel(price))],
             price, is_ask, EMPTY)

find_or_create_price_level(b, price, is_ask, insert_after_price) ==
    LET key == get_price_level_key(price, is_ask) IN
    IF key \in DOMAIN b.price_levels THEN b
    ELSE insert_price_level_into_list(
             [b EXCEPT !.price_levels = PutKey(@, key, SimPriceLevel(price))],
             price, is_ask, insert_after_price)

insert_order_into_price_level(b, price_level_id, order_id, insert_after_order, is_ask) ==
    LET level_key == get_price_level_key(price_level_id, is_ask) IN
    IF order_id \notin DOMAIN b.orders THEN b
    ELSE
    LET order_amount == b.orders[order_id].amount
        linked ==
            IF insert_after_order = EMPTY
            THEN LET old_head == IF level_key \in DOMAIN b.price_levels
                                 THEN b.price_levels[level_key].head_order_id
                                 ELSE EMPTY
                     b1 == IF old_head # EMPTY
                           THEN SetOrder(SetOrder(b, old_head, "prev_order_id", order_id),
                                         order_id, "next_order_id", old_head)
                           ELSE SetLevel(b, level_key, "tail_order_id", order_id)
                 IN SetLevel(b1, level_key, "head_order_id", order_id)
            ELSE LET next_order_id == IF insert_after_order \in DOMAIN b.orders
                                      THEN b.orders[insert_after_order].next_order_id
                                      ELSE EMPTY
                     b1 == SetOrder(SetOrder(b, order_id, "prev_order_id", insert_after_order),
                                    order_id, "next_order_id", next_order_id)
                     b2 == SetOrder(b1, insert_after_order, "next_order_id", order_id)
                 IN IF next_order_id # EMPTY
                    THEN SetOrder(b2, next_order_id, "prev_order_id", order_id)
                    ELSE SetLevel(b2, level_key, "tail_order_id", order_id)
    IN IF level_key \in DOMAIN linked.price_levels
       THEN SetLevel(linked, level_key, "total_volume",
                     linked.price_levels[level_key].total_volume + order_amount)
       ELSE linked

remove_order_from_price_level(b, price_level_id, order_id, is_ask) ==
    IF order_id \notin DOMAIN b.orders THEN b
    ELSE
    LET prev_order_id == b.orders[order_id].prev_order_id
        next_order_id == b.orders[order_id].next_order_id
        level_key == get_price_level_key(price_level_id, is_ask)
        b1 == IF prev_order_id # EMPTY
              THEN SetOrder(b, prev_order_id, "next_order_id", next_order_id)
              ELSE SetLevel(b, level_key, "head_order_id", next_order_id)
    IN IF next_order_id # EMPTY
       THEN SetOrder(b1, next_order_id, "prev_order_id", prev_order_id)
       ELSE SetLevel(b1, level_key, "tail_order_id", prev_order_id)

remove_price_level(b, price_level_id, is_ask) ==
    LET level_key == get_price_level_key(price_level_id, is_ask) IN
    IF level_key \notin DOMAIN b.price_levels THEN b
    ELSE
    LET prev_price == b.price_levels[level_key].prev_price
        next_price == b.price_levels[level_key].next_price
        b1 == IF prev_price # EMPTY
              THEN SetLevel(b, get_price_level_key(prev_price, is_ask),
                            "next_price", next_price)
              ELSE SetSideHead(b, is_ask, next_price)
        b2 == IF next_price # EMPTY
              THEN SetLevel(b1, get_price_level_key(next_price, is_ask),
                            "prev_price", prev_price)
              ELSE SetSideTail(b1, is_ask, prev_price)
    IN [b2 EXCEPT !.price_levels = RemoveKey(@, level_key)]

\* The tail of remove_filled_order and simulate_remove_order: destroy the
\* level when its order list is empty.
RemoveLevelIfEmpty(b, price_level_id, is_ask) ==
    LET level_key == get_price_level_key(price_level_id, is_ask)
        should_remove_level ==
            IF level_key \in DOMAIN b.price_levels
            THEN b.price_levels[level_key].head_order_id = EMPTY
            ELSE FALSE
    IN IF should_remove_level THEN remove_price_level(b, price_level_id, is_ask) ELSE b

remove_filled_order(b, order_id, is_ask) ==
    IF order_id \notin DOMAIN b.orders THEN b
    ELSE
    LET price_level_id == b.orders[order_id].price_level
        b1 == remove_order_from_price_level(b, price_level_id, order_id, is_ask)
        b2 == RemoveLevelIfEmpty(b1, price_level_id, is_ask)
    IN DropOrder(b2, order_id)

\* `order.filled_amount = order.filled_amount + trade_amount`, recorded in
\* g_excess under the side the order was created on.
AddFilled(b, order_id, trade_amount) ==
    IF order_id \in DOMAIN b.orders
    THEN [b EXCEPT !.orders[order_id].filled_amount = @ + trade_amount,
                   !.g_excess = IF b.g_side[order_id] THEN @ - trade_amount
                                 ELSE @ + trade_amount]
    ELSE b

FullyFilled(b, order_id) ==
    IF order_id \in DOMAIN b.orders
    THEN b.orders[order_id].filled_amount >= b.orders[order_id].amount
    ELSE FALSE

\* Returns [traded, b].
execute_trade(b, bid_order_id, ask_order_id) ==
    IF bid_order_id \notin DOMAIN b.orders \/ ask_order_id \notin DOMAIN b.orders
    THEN [traded |-> FALSE, b |-> b]
    ELSE
    LET bid_remaining == b.orders[bid_order_id].amount - b.orders[bid_order_id].filled_amount
        bid_price_level == b.orders[bid_order_id].price_level
        ask_remaining == b.orders[ask_order_id].amount - b.orders[ask_order_id].filled_amount
        ask_price_level == b.orders[ask_order_id].price_level
        trade_amount == Min(bid_remaining, ask_remaining)
    IN IF trade_amount = 0 THEN [traded |-> FALSE, b |-> b]
       ELSE
       LET b1 == AddFilled(b, bid_order_id, trade_amount)
           b2 == AddFilled(b1, ask_order_id, trade_amount)
           bid_key == get_price_level_key(bid_price_level, FALSE)
           b3 == IF bid_key \in DOMAIN b2.price_levels
                 THEN SetLevel(b2, bid_key, "total_volume",
                          saturating_sub(b2.price_levels[bid_key].total_volume, trade_amount))
                 ELSE b2
           ask_key == get_price_level_key(ask_price_level, TRUE)
           b4 == IF ask_key \in DOMAIN b3.price_levels
                 THEN SetLevel(b3, ask_key, "total_volume",
                          saturating_sub(b3.price_levels[ask_key].total_volume, trade_amount))
                 ELSE b3
           b5 == IF FullyFilled(b4, bid_order_id)
                 THEN remove_filled_order(b4, bid_order_id, FALSE) ELSE b4
           b6 == IF FullyFilled(b5, ask_order_id)
                 THEN remove_filled_order(b5, ask_order_id, TRUE) ELSE b5
       IN [traded |-> TRUE, b |-> b6]

RECURSIVE match_orders_internal(_, _)
match_orders_internal(b, max_iterations) ==
    IF max_iterations = 0 THEN b
    ELSE
    LET bid_price == b.bid_head
        ask_price == b.ask_head
        bid_key == get_price_level_key(bid_price, FALSE)
        ask_key == get_price_level_key(ask_price, TRUE)
    IN IF bid_price = EMPTY \/ ask_price = EMPTY THEN b
       ELSE IF bid_key \notin DOMAIN b.price_levels THEN b
       ELSE IF ask_key \notin DOMAIN b.price_levels THEN b
       ELSE IF b.price_levels[bid_key].price < b.price_levels[ask_key].price THEN b
       ELSE IF b.price_levels[bid_key].head_order_id = EMPTY
               \/ b.price_levels[ask_key].head_order_id = EMPTY THEN b
       ELSE LET r == execute_trade(b, b.price_levels[bid_key].head_order_id,
                                   b.price_levels[ask_key].head_order_id)
            IN IF ~r.traded THEN b
               ELSE match_orders_internal(r.b, max_iterations - 1)

insert_market_order_at_tail(b, order_id, is_ask) ==
    LET old_tail == MarketTail(b, is_ask) IN
    IF old_tail = EMPTY
    THEN SetMarketTail(SetMarketHead(b, is_ask, order_id), is_ask, order_id)
    ELSE SetMarketTail(
             SetOrder(SetOrder(b, old_tail, "next_order_id", order_id),
                      order_id, "prev_order_id", old_tail),
             is_ask, order_id)

remove_market_order_from_list(b, order_id, is_ask) ==
    IF order_id \notin DOMAIN b.orders THEN b
    ELSE
    LET prev_order_id == b.orders[order_id].prev_order_id
        next_order_id == b.orders[order_id].next_order_id
        b1 == IF prev_order_id # EMPTY
              THEN SetOrder(b, prev_order_id, "next_order_id", next_order_id)
              ELSE SetMarketHead(b, is_ask, next_order_id)
    IN IF next_order_id # EMPTY
       THEN SetOrder(b1, next_order_id, "prev_order_id", prev_order_id)
       ELSE SetMarketTail(b1, is_ask, prev_order_id)

\* Returns [traded, b].
execute_market_trade(b, market_order_id, limit_order_id, is_market_ask) ==
    IF market_order_id \notin DOMAIN b.orders \/ limit_order_id \notin DOMAIN b.orders
    THEN [traded |-> FALSE, b |-> b]
    ELSE
    LET market_remaining ==
            b.orders[market_order_id].amount - b.orders[market_order_id].filled_amount
        limit_remaining ==
            b.orders[limit_order_id].amount - b.orders[limit_order_id].filled_amount
        limit_price_level == b.orders[limit_order_id].price_level
        trade_amount == Min(market_remaining, limit_remaining)
    IN IF trade_amount = 0 THEN [traded |-> FALSE, b |-> b]
       ELSE
       LET b1 == AddFilled(b, market_order_id, trade_amount)
           b2 == AddFilled(b1, limit_order_id, trade_amount)
           limit_is_ask == ~is_market_ask
           limit_key == get_price_level_key(limit_price_level, limit_is_ask)
           b3 == IF limit_key \in DOMAIN b2.price_levels
                 THEN SetLevel(b2, limit_key, "total_volume",
                          saturating_sub(b2.price_levels[limit_key].total_volume, trade_amount))
                 ELSE b2
           b4 == IF FullyFilled(b3, market_order_id)
                 THEN LET u == remove_market_order_from_list(b3, market_order_id, is_market_ask)
                      IN DropOrder(u, market_order_id)
                 ELSE b3
           b5 == IF FullyFilled(b4, limit_order_id)
                 THEN remove_filled_order(b4, limit_order_id, limit_is_ask) ELSE b4
       IN [traded |-> TRUE, b |-> b5]

\* One of the two loops of match_market_orders_internal: the market FIFO of
\* side is_market_ask against the best level of the other side.  Returns
\* [b, iterations].
RECURSIVE MarketLoop(_, _, _, _)
MarketLoop(b, is_market_ask, iterations, max_iterations) ==
    IF ~(iterations < max_iterations) THEN [b |-> b, iterations |-> iterations]
    ELSE
    LET market_head == MarketHead(b, is_market_ask)
        limit_head == SideHead(b, ~is_market_ask)
        limit_key == get_price_level_key(limit_head, ~is_market_ask)
        stop == [b |-> b, iterations |-> iterations]
    IN IF market_head = EMPTY \/ limit_head = EMPTY THEN stop
       ELSE IF limit_key \notin DOMAIN b.price_levels THEN stop
       ELSE IF b.price_levels[limit_key].head_order_id = EMPTY THEN stop
       ELSE LET r == execute_market_trade(b, market_head,
                         b.price_levels[limit_key].head_order_id, is_market_ask)
            IN IF ~r.traded THEN stop
               ELSE MarketLoop(r.b, is_market_ask, iterations + 1, max_iterations)

match_market_orders_internal(b, max_iterations) ==
    LET r1 == MarketLoop(b, FALSE, 0, max_iterations)
        r2 == MarketLoop(r1.b, TRUE, r1.iterations, max_iterations)
    IN r2.b

try_match_after_insertion(b) ==
    match_market_orders_internal(match_orders_internal(b, MaxIterations), MaxIterations)

\* Returns [b, insert_after_price].
simulate_insert_order(b, order_id, price, amount, is_ask) ==
    LET insert_after_price == find_insert_position(b, price, is_ask)
        b1 == find_or_create_price_level(b, price, is_ask, insert_after_price)
        b2 == [b1 EXCEPT !.orders = PutKey(@, order_id, SimOrder(order_id, amount, FALSE, price)),
                         !.g_side = PutKey(@, order_id, is_ask)]
        b3 == insert_order_into_price_level(b2, price, order_id, EMPTY, is_ask)
    IN [b |-> try_match_after_insertion(b3), insert_after_price |-> insert_after_price]

simulate_insert_market_order(b, order_id, amount, is_ask) ==
    LET b1 == [b EXCEPT !.orders = PutKey(@, order_id, SimOrder(order_id, amount, TRUE, EMPTY)),
                        !.g_side = PutKey(@, order_id, is_ask)]
        b2 == insert_market_order_at_tail(b1, order_id, is_ask)
    IN try_match_after_insertion(b2)

\* Returns [b, ok].
simulate_remove_order(b, order_id, is_ask) ==
    IF order_id \notin DOMAIN b.orders THEN [b |-> b, ok |-> FALSE]
    ELSE
    LET price_level_id == b.orders[order_id].price_level
        b1 == remove_order_from_price_level(b, price_level_id, order_id, is_ask)
        b2 == RemoveLevelIfEmpty(b1, price_level_id, is_ask)
    IN [b |-> DropOrder(b2, order_id), ok |-> TRUE]

\* ------------------------------------------------------------- the Replica
NoCall == [op |-> "none", price |-> EMPTY, is_ask |-> FALSE, ret |-> EMPTY]

\* main before its first fallible call: no task spawned, no signal
NewProcess ==
    [main_pc |-> "startup", sync_handle |-> "none", match_handle |-> "none",
     ctrl_c |-> FALSE, exit_code |-> 0]

\* MatchSimulator::new
NewMatchSimulator ==
    [local_orderbook |-> [bids |-> <<>>, asks |-> <<>>, market_bids |-> <<>>,
                          market_asks |-> <<>>],
     pending_changes |-> <<>>, g_succeeded |-> {}, g_expired |-> {}]

\* MatchResult::new
NewMatchResult ==
    [order_ids |-> <<>>, insert_after_price_levels |-> <<>>, insert_after_orders |-> <<>>]

\* OrderBookSimulator::new, GlobalState::new, and both tasks at their start
Init ==
    /\ book = NewBook
    /\ nextId = 1
    /\ last = NoCall
    /\ queued_requests = EmptyMap
    /\ queue_head = EMPTY
    /\ sync_pc = "cold"
    /\ engine_pc = "tick"
    /\ requests = <<>>
    /\ match_result = NewMatchResult
    /\ replica = NewBook
    /\ events = <<>>
    /\ simulator = NewMatchSimulator
    /\ tx_count = 0
    /\ chain_block = 0
    /\ current_block = 0
    /\ synced_block = 0
    /\ sequencer_events = <<>>
    /\ chain_requests = <<>>
    /\ match_iterations = 0
    /\ now = 0
    /\ cleanup_counter = 0
    /\ process = NewProcess
    /\ added_request = EMPTY
    /\ first_remaining = EMPTY
    /\ g_late = {}

\* simulate_insert_order with a fresh order id, while fewer than max_orders
\* orders have been created
InsertLimitIn(prices, amounts, max_orders) ==
    /\ nextId <= max_orders
    /\ \E price \in prices, amount \in amounts, is_ask \in BOOLEAN :
          LET r == simulate_insert_order(book, nextId, price, amount, is_ask) IN
          /\ book' = r.b
          /\ last' = [op |-> "insert_limit", price |-> price, is_ask |-> is_ask,
                      ret |-> r.insert_after_price]
    /\ nextId' = nextId + 1
    /\ UNCHANGED dvars
    /\ UNCHANGED rvars
    /\ UNCHANGED pvars
    /\ UNCHANGED bvars

\* simulate_insert_market_order with a fresh order id
InsertMarketIn(amounts, max_orders) ==
    /\ nextId <= max_orders
    /\ \E amount \in amounts, is_ask \in BOOLEAN :
          /\ book' = simulate_insert_market_order(book, nextId, amount, is_ask)
          /\ last' = [op |-> "insert_market", price |-> EMPTY, is_ask |-> is_ask,
                      ret |-> EMPTY]
    /\ nextId' = nextId + 1
    /\ UNCHANGED dvars
    /\ UNCHANGED rvars
    /\ UNCHANGED pvars
    /\ UNCHANGED bvars

AnySide(order_id) == BOOLEAN

\* The side the order was created on; either side for an unknown id.
OwnSide(order_id) ==
    IF order_id \in DOMAIN book.g_side THEN {book.g_side[order_id]} ELSE BOOLEAN

\* simulate_remove_order(order_id, is_ask) for either side, or with own_side
\* for the side of the order only; the id is one of the ids created so far
\* or nextId, an id the table never held
RemoveOrderIn(own_side) ==
    /\ \E order_id \in 1..nextId :
          \E is_ask \in (IF own_side THEN OwnSide(order_id) ELSE AnySide(order_id)) :
              LET r == simulate_remove_order(book, order_id, is_ask) IN
              /\ book' = r.b
              /\ last' = [op |-> "remove", price |-> EMPTY, is_ask |-> is_ask,
                          ret |-> IF r.ok THEN 1 ELSE 0]
    /\ UNCHANGED nextId
    /\ UNCHANGED dvars
    /\ UNCHANGED rvars
    /\ UNCHANGED pvars
    /\ UNCHANGED bvars

\* Spec: every call the simulator's public interface accepts.
InsertLimit == InsertLimitIn(Prices, Amounts, MaxOrders)
InsertMarket == InsertMarketIn(Amounts, MaxOrders)
RemoveOrder == RemoveOrderIn(FALSE)

Next == InsertLimit \/ InsertMarket \/ RemoveOrder

Spec == Init /\ [][Next]_vars

\* SpecOwnSide: the calls among them whose amount is positive and whose
\* remove_order names the side the order rests on.
PlaceLimit == InsertLimitIn(Prices, Amounts \ {0}, MaxOrders)
PlaceMarket == InsertMarketIn(Amounts \ {0}, MaxOrders)
CancelOwnSide == RemoveOrderIn(TRUE)

NextOwnSide == PlaceLimit \/ PlaceMarket \/ CancelOwnSide

SpecOwnSide == Init /\ [][NextOwnSide]_vars

\* SpecOnePrice: the limit orders of one price and the removals of Spec,
\* followed one order further.
InsertLimitOnePrice == InsertLimitIn({MaxPrice}, Amounts, MaxDeepOrders)
RemoveOrderOnePrice == RemoveOrderIn(FALSE)

NextOnePrice == InsertLimitOnePrice \/ RemoveOrderOnePrice

SpecOnePrice == Init /\ [][NextOnePrice]_vars

\* ----------------------------------------------------------- list walking
\* get_price_levels: the prices met from the side's head by next_price.  The
\* walk stops at a price with no level (after listing it); `fuel` only
\* keeps the model's evaluation finite should a list ever be cyclic.
RECURSIVE WalkPrices(_, _, _, _)
WalkPrices(b, is_ask, current, fuel) ==
    IF current = EMPTY \/ fuel = 0 THEN <<>>
    ELSE LET key == get_price_level_key(current, is_ask) IN
         IF key \in DOMAIN b.price_levels
         THEN <<current>> \o WalkPrices(b, is_ask, b.price_levels[key].next_price, fuel - 1)
         ELSE <<current>>

get_price_levels(b, is_ask) ==
    WalkPrices(b, is_ask, SideHead(b, is_ask), Cardinality(DOMAIN b.price_levels) + 1)

\* The same walk from the side's tail by prev_price.
RECURSIVE WalkPricesBack(_, _, _, _)
WalkPricesBack(b, is_ask, current, fuel) ==
    IF current = EMPTY \/ fuel = 0 THEN <<>>
    ELSE LET key == get_price_level_key(current, is_ask) IN
         IF key \in DOMAIN b.price_levels
         THEN <<current>> \o WalkPricesBack(b, is_ask, b.price_levels[key].prev_price, fuel - 1)
         ELSE <<current>>

PriceLevelsBackward(b, is_ask) ==
    WalkPricesBack(b, is_ask, SideTail(b, is_ask), Cardinality(DOMAIN b.price_levels) + 1)

\* get_orders_at_price / get_market_orders: the ids met from `head` by
\* next_order_id.
RECURSIVE WalkOrders(_, _, _)
WalkOrders(b, current, fuel) ==
    IF current = EMPTY \/ fuel = 0 THEN <<>>
    ELSE IF current \in DOMAIN b.orders
         THEN <<current>> \o WalkOrders(b, b.orders[current].next_order_id, fuel - 1)
         ELSE <<current>>

RECURSIVE WalkOrdersBack(_, _, _)
WalkOrdersBack(b, current, fuel) ==
    IF current = EMPTY \/ fuel = 0 THEN <<>>
    ELSE IF current \in DOMAIN b.orders
         THEN <<current>> \o WalkOrdersBack(b, b.orders[current].prev_order_id, fuel - 1)
         ELSE <<current>>

OrdersFrom(b, head) == WalkOrders(b, head, Cardinality(DOMAIN b.orders) + 1)
OrdersBackFrom(b, tail) == WalkOrdersBack(b, tail, Cardinality(DOMAIN b.orders) + 1)

get_orders_at_price(b, price, is_ask) ==
    LET key == get_price_level_key(price, is_ask) IN
    IF key \in DOMAIN b.price_levels
    THEN OrdersFrom(b, b.price_levels[key].head_order_id)
    ELSE <<>>

get_market_orders(b, is_ask) == OrdersFrom(b, MarketHead(b, is_ask))

Reverse(q) == [i \in 1..Len(q) |-> q[Len(q) + 1 - i]]

Range(q) == {q[i] : i \in 1..Len(q)}

RECURSIVE SeqSum(_)
SeqSum(q) == IF q = <<>> THEN 0 ELSE Head(q) + SeqSum(Tail(q))

\* The side of a level key: asks carry no bid bit.
KeyIsAsk(key) == (key \div BidBit) % 2 = 0

\* --------------------------------------------------------- SequencerMirror
QueuedRequest(request_id, request_type, order_type, is_ask, price, amount, order_id_to_remove, next_request_id) ==
    [request_id |-> request_id, request_type |-> request_type,
     order_type |-> order_type, is_ask |-> is_ask, price |-> price, amount |-> amount,
     order_id_to_remove |-> order_id_to_remove, next_request_id |-> next_request_id]

\* GlobalState::get_head_requests: at most n requests from `head` by
\* next_request_id, stopping at an id the map does not hold.
RECURSIVE WalkRequests(_, _, _)
WalkRequests(queued, current, n) ==
    IF n = 0 \/ current = EMPTY THEN <<>>
    ELSE IF current \in DOMAIN queued
         THEN <<queued[current]>> \o WalkRequests(queued, queued[current].next_request_id, n - 1)
         ELSE <<>>

get_head_requests(queued, head, n) ==
    IF head = EMPTY THEN <<>> ELSE WalkRequests(queued, head, n)

\* GlobalState::remove_request for every id of the sequence
RECURSIVE remove_requests(_, _)
remove_requests(queued, ids) ==
    IF ids = <<>> THEN queued
    ELSE remove_requests(RemoveKey(queued, Head(ids)), Tail(ids))

\* The request payloads the Sequencer contract holds or announces: limit and
\* market orders of positive amount, and removals of an order id.
PlaceOrderPayloads ==
    [order_type : {"Limit"}, is_ask : BOOLEAN, price : Prices, amount : Amounts \ {0}]
      \cup [order_type : {"Market"}, is_ask : BOOLEAN, price : {EMPTY},
            amount : Amounts \ {0}]

\* The QueuedRequest sync_sequencer_state builds from queued_requests(id) of
\* the contract: for a removal the order id travels in the price field.
SyncedRequest(request_id, data, next_request_id) ==
    QueuedRequest(request_id, data.request_type, data.order_type, data.is_ask,
                  data.price, data.amount,
                  IF data.request_type = "RemoveOrder" THEN data.price ELSE EMPTY,
                  next_request_id)

\* What queued_requests(id) of the contract returns for a request
ChainRequestData ==
    {[request_type |-> "PlaceOrder", order_type |-> x.order_type, is_ask |-> x.is_ask,
      price |-> x.price, amount |-> x.amount] : x \in PlaceOrderPayloads}
      \cup {[request_type |-> "RemoveOrder", order_type |-> "Limit", is_ask |-> FALSE,
             price |-> id, amount |-> EMPTY] : id \in 1..MaxOrders}

ChainQueues == UNION {[1..n -> ChainRequestData] : n \in 0..MaxQueue}

\* sync_sequencer_state: the mirror takes the head of the contract's queue
\* and every request linked from it.  The requests of the contract's queue
\* carry the ids nextId, nextId + 1, ...
SyncSequencerState ==
    /\ sync_pc = "cold"
    /\ \E q \in ChainQueues :
          /\ nextId + Len(q) <= MaxOrders + 1
          /\ queue_head' = IF Len(q) = 0 THEN EMPTY ELSE nextId
          /\ queued_requests' =
                [id \in nextId..(nextId + Len(q) - 1) |->
                    SyncedRequest(id, q[id - nextId + 1],
                                  IF id = nextId + Len(q) - 1 THEN EMPTY ELSE id + 1)]
          /\ nextId' = nextId + Len(q)
    /\ sync_pc' = "warm"
    /\ UNCHANGED <<book, last, engine_pc, requests, match_result>>
    /\ UNCHANGED rvars
    /\ UNCHANGED pvars
    /\ UNCHANGED bvars

\* watch_sequencer_events, PlaceOrderRequested
PlaceOrderRequested ==
    /\ sync_pc = "warm"
    /\ nextId <= MaxOrders
    /\ \E x \in PlaceOrderPayloads :
          queued_requests' =
              PutKey(queued_requests, nextId,
                     QueuedRequest(nextId, "PlaceOrder", x.order_type, x.is_ask, x.price,
                                   x.amount, EMPTY, EMPTY))
    /\ queue_head' = nextId
    /\ nextId' = nextId + 1
    /\ UNCHANGED <<book, last, sync_pc, engine_pc, requests, match_result>>
    /\ UNCHANGED rvars
    /\ UNCHANGED pvars
    /\ UNCHANGED bvars

\* watch_sequencer_events, RemoveOrderRequested
RemoveOrderRequested ==
    /\ sync_pc = "warm"
    /\ nextId <= MaxOrders
    /\ \E order_id_to_remove \in 1..MaxOrders :
          queued_requests' =
              PutKey(queued_requests, nextId,
                     QueuedRequest(nextId, "RemoveOrder", "Limit", FALSE, EMPTY, EMPTY,
                                   order_id_to_remove, EMPTY))
    /\ queue_head' = nextId
    /\ nextId' = nextId + 1
    /\ UNCHANGED <<book, last, sync_pc, engine_pc, requests, match_result>>
    /\ UNCHANGED rvars
    /\ UNCHANGED pvars
    /\ UNCHANGED bvars

\* -------------------------------------------------------------- Dispatcher
\* PriceLevelCache::new
NewPriceLevelCache == [price_to_level |-> EmptyMap, levels |-> EmptyMap]

\* GlobalState::get_or_create_price_cache: a clone of the stored pair of
\* caches, which stays the empty pair it is created as (update_price_cache
\* has no caller).
get_or_create_price_cache == [bid |-> NewPriceLevelCache, ask |-> NewPriceLevelCache]

\* PriceLevelCache::insert
PriceLevelCache_insert(cache, level_id, level) ==
    [price_to_level |-> PutKey(cache.price_to_level, level.price, level_id),
     levels |-> PutKey(cache.levels, level_id, level)]

\* The contract's price_levels(level_id) for a level id read from the heads
\* or the next pointers of side is_ask: that side's level, or the zero
\* record of an unset mapping entry.
chain_price_levels(b, level_id, is_ask) ==
    IF get_price_level_key(level_id, is_ask) \in DOMAIN b.price_levels
    THEN b.price_levels[get_price_level_key(level_id, is_ask)]
    ELSE SimPriceLevel(EMPTY)

\* The loop of MatchingEngine::find_insert_position
RECURSIVE MatchingEngineWalk(_, _, _, _, _, _)
MatchingEngineWalk(b, price, is_ask, cache, current_level_id, prev_level_id) ==
    IF current_level_id = EMPTY THEN prev_level_id
    ELSE LET hit == current_level_id \in DOMAIN cache.levels
             level == IF hit THEN cache.levels[current_level_id]
                      ELSE chain_price_levels(b, current_level_id, is_ask)
             cache1 == IF hit THEN cache
                       ELSE PriceLevelCache_insert(cache, current_level_id, level)
             should_insert_here ==
                 IF is_ask THEN price <= level.price ELSE price >= level.price
         IN IF should_insert_here THEN prev_level_id
            ELSE MatchingEngineWalk(b, price, is_ask, cache1, level.next_price,
                                    current_level_id)

\* MatchingEngine::find_insert_position, reading the book b of the contract
MatchingEngine_find_insert_position(b, price, is_ask, cache) ==
    IF price \in DOMAIN cache.price_to_level THEN cache.price_to_level[price]
    ELSE LET head == SideHead(b, is_ask) IN
         IF head = EMPTY THEN EMPTY
         ELSE MatchingEngineWalk(b, price, is_ask, cache, head, EMPTY)

\* MatchResult::add_order
MatchResult_add_order(result, order_id, price_level, order) ==
    [order_ids |-> Append(result.order_ids, order_id),
     insert_after_price_levels |-> Append(result.insert_after_price_levels, price_level),
     insert_after_orders |-> Append(result.insert_after_orders, order)]

\* The loop of calculate_insert_positions
RECURSIVE CalculateLoop(_, _, _)
CalculateLoop(b, reqs, result) ==
    IF reqs = <<>> THEN result
    ELSE LET request == Head(reqs) IN
         IF request.request_type # "PlaceOrder" \/ request.order_type # "Limit"
         THEN CalculateLoop(b, Tail(reqs), result)
         ELSE LET caches == get_or_create_price_cache
                  cache == IF request.is_ask THEN caches.ask ELSE caches.bid
                  insert_after_price_level ==
                      MatchingEngine_find_insert_position(b, request.price,
                                                          request.is_ask, cache)
              IN CalculateLoop(b, Tail(reqs),
                               MatchResult_add_order(result, request.request_id,
                                                     insert_after_price_level, EMPTY))

calculate_insert_positions(b, reqs) == CalculateLoop(b, reqs, NewMatchResult)

\* The contract applies one request of a batch to its book, as the
\* simulator applies it, a removal on the side its order rests on.
ChainProcessRequest(b, queued, id) ==
    IF id \notin DOMAIN queued THEN b
    ELSE LET r == queued[id] IN
         IF r.request_type = "RemoveOrder"
         THEN IF r.order_id_to_remove \in DOMAIN b.g_side
              THEN simulate_remove_order(b, r.order_id_to_remove,
                                         b.g_side[r.order_id_to_remove]).b
              ELSE b
         ELSE IF r.order_type = "Limit"
         THEN simulate_insert_order(b, id, r.price, r.amount, r.is_ask).b
         ELSE simulate_insert_market_order(b, id, r.amount, r.is_ask)

\* The contract's batchProcessRequests on a batch it accepts: the requests
\* named by order_ids are applied in order to the book.
RECURSIVE ChainProcessRequests(_, _, _)
ChainProcessRequests(b, queued, order_ids) ==
    IF order_ids = <<>> THEN b
    ELSE ChainProcessRequests(ChainProcessRequest(b, queued, Head(order_ids)), queued,
                              Tail(order_ids))

\* ---------------------------------------------------------- MatchSimulator
LocalOrder(id, price, amount, filled_amount, is_market) ==
    [id |-> id, price |-> price, amount |-> amount, filled_amount |-> filled_amount,
     is_market |-> is_market]

\* One loop of predict_ask_match / predict_bid_match over the orders q of
\* the other side, the market orders (limit_side false) or the limit orders;
\* acc holds remaining, matched_order_ids and match_prices.
RECURSIVE PredictLoop(_, _, _, _, _, _)
PredictLoop(q, limit_side, acc, is_market, incoming_is_ask, price) ==
    IF q = <<>> \/ acc.remaining = 0 THEN acc
    ELSE LET o == Head(q)
             price_fails == IF incoming_is_ask THEN o.price < price ELSE o.price > price
         IN IF limit_side /\ ~is_market /\ price_fails THEN acc
            ELSE LET available == o.amount - o.filled_amount IN
                 IF available = 0
                 THEN PredictLoop(Tail(q), limit_side, acc, is_market, incoming_is_ask, price)
                 ELSE LET trade_amount == Min(acc.remaining, available) IN
                      PredictLoop(Tail(q), limit_side,
                          [remaining |-> acc.remaining - trade_amount,
                           matched_order_ids |-> Append(acc.matched_order_ids, o.id),
                           match_prices |-> Append(acc.match_prices,
                                                   IF limit_side THEN o.price ELSE price)],
                          is_market, incoming_is_ask, price)

\* The MatchPrediction built at the end of predict_ask_match / predict_bid_match
MatchPrediction(amount, acc) ==
    [will_match |-> amount - acc.remaining # 0,
     expected_filled_amount |-> amount - acc.remaining,
     will_fully_fill |-> acc.remaining = 0,
     matched_order_ids |-> acc.matched_order_ids,
     match_prices |-> acc.match_prices]

predict_ask_match(sim, price, amount, is_market) ==
    LET acc0 == [remaining |-> amount, matched_order_ids |-> <<>>, match_prices |-> <<>>]
        acc1 == PredictLoop(sim.local_orderbook.market_bids, FALSE, acc0, is_market, TRUE, price)
        acc2 == PredictLoop(sim.local_orderbook.bids, TRUE, acc1, is_market, TRUE, price)
    IN MatchPrediction(amount, acc2)

predict_bid_match(sim, price, amount, is_market) ==
    LET acc0 == [remaining |-> amount, matched_order_ids |-> <<>>, match_prices |-> <<>>]
        acc1 == PredictLoop(sim.local_orderbook.market_asks, FALSE, acc0, is_market, FALSE, price)
        acc2 == PredictLoop(sim.local_orderbook.asks, TRUE, acc1, is_market, FALSE, price)
    IN MatchPrediction(amount, acc2)

\* predict_limit_order_match with the two sides taken for one another
predict_limit_order_same_side(sim, price, amount, is_ask) ==
    IF is_ask THEN predict_bid_match(sim, price, amount, FALSE)
    ELSE predict_ask_match(sim, price, amount, FALSE)

\* MatchSimulator::predict_limit_order_match
predict_limit_order_match(sim, price, amount, is_ask) ==
    IF is_ask THEN predict_ask_match(sim, price, amount, FALSE)
    ELSE predict_bid_match(sim, price, amount, FALSE)

\* U256::max_value() is modelled by a price above every price of the model.
predict_market_order_match(sim, amount, is_ask) ==
    IF is_ask THEN predict_ask_match(sim, EMPTY, amount, TRUE)
    ELSE predict_bid_match(sim, BidBit - 1, amount, TRUE)

\* The changes apply_prediction_pending records for a prediction
PredictedChanges(prediction, is_ask) ==
    [i \in 1..Len(prediction.matched_order_ids) |->
        [kind |-> "UpdateFilledAmount", order_id |-> prediction.matched_order_ids[i],
         filled_amount |-> prediction.expected_filled_amount, is_ask |-> ~is_ask,
         is_market |-> FALSE]]
    \o (IF prediction.will_fully_fill
        THEN [i \in 1..Len(prediction.matched_order_ids) |->
                 [kind |-> "RemoveOrder", order_id |-> prediction.matched_order_ids[i],
                  filled_amount |-> EMPTY, is_ask |-> ~is_ask, is_market |-> FALSE]]
        ELSE <<>>)

\* MatchSimulator::update_order_filled_amount
update_order_filled_amount(sim, order_id, is_counterparty_ask) ==
    LET fill(q) == [i \in 1..Len(q) |->
                       IF q[i].id = order_id
                             /\ \A j \in 1..(i - 1) : q[j].id # order_id
                       THEN [q[i] EXCEPT !.filled_amount = q[i].amount]
                       ELSE q[i]]
    IN IF is_counterparty_ask
       THEN [sim EXCEPT !.local_orderbook.bids = fill(@),
                        !.local_orderbook.market_bids = fill(@)]
       ELSE [sim EXCEPT !.local_orderbook.asks = fill(@),
                        !.local_orderbook.market_asks = fill(@)]

\* The loop of MatchSimulator::apply_prediction
RECURSIVE ApplyPredictionLoop(_, _, _)
ApplyPredictionLoop(sim, ids, is_ask) ==
    IF ids = <<>> THEN sim
    ELSE ApplyPredictionLoop(update_order_filled_amount(sim, Head(ids), is_ask),
                             Tail(ids), is_ask)

\* MatchSimulator::apply_prediction, which writes the prediction into the
\* local order book at once
apply_prediction(sim, prediction, tx_hash, is_ask) ==
    IF ~prediction.will_match THEN sim
    ELSE ApplyPredictionLoop(sim, prediction.matched_order_ids, is_ask)

\* MatchSimulator::apply_prediction_pending
apply_prediction_pending(sim, prediction, tx_hash, is_ask) ==
    IF ~prediction.will_match THEN sim
    ELSE [sim EXCEPT !.pending_changes =
             Append(@, [tx_hash |-> tx_hash,
                        changes |-> PredictedChanges(prediction, is_ask),
                        timestamp |-> now])]

\* The first position of pending_changes keyed by tx_hash, or 0
PendingPosition(sim, tx_hash) ==
    IF \E i \in 1..Len(sim.pending_changes) : sim.pending_changes[i].tx_hash = tx_hash
    THEN CHOOSE i \in 1..Len(sim.pending_changes) :
            /\ sim.pending_changes[i].tx_hash = tx_hash
            /\ \A j \in 1..(i - 1) : sim.pending_changes[j].tx_hash # tx_hash
    ELSE 0

\* Vec::remove(pos)
RemoveAt(q, pos) == SubSeq(q, 1, pos - 1) \o SubSeq(q, pos + 1, Len(q))

\* MatchSimulator::rollback_changes
rollback_changes(sim, tx_hash) ==
    LET pos == PendingPosition(sim, tx_hash) IN
    IF pos # 0 THEN [sim EXCEPT !.pending_changes = RemoveAt(@, pos)] ELSE sim

\* The retain closure of cleanup_expired_changes: the entry is not younger
\* than the timeout at instant
expires_at_timeout(change, instant, timeout) == instant - change.timestamp >= timeout

\* The retain closure of cleanup_expired_changes: the entry is older than
\* the timeout at instant
expires_after_timeout(change, instant, timeout) == instant - change.timestamp > timeout

\* MatchSimulator::cleanup_expired_changes at instant: retain keeps the
\* entries whose age is at most the timeout, in their order
cleanup_expired_changes(sim, instant, timeout) ==
    [sim EXCEPT !.pending_changes =
                    SelectSeq(@, LAMBDA change : ~expires_after_timeout(change, instant, timeout)),
                !.g_expired =
                    @ \cup {sim.pending_changes[i].tx_hash :
                               i \in {j \in 1..Len(sim.pending_changes) :
                                         expires_after_timeout(sim.pending_changes[j],
                                                               instant, timeout)}}]

\* The position a stable sort by `before` gives an element pushed behind q
RECURSIVE SortedInsert(_, _, _)
SortedInsert(q, order, ascending) ==
    IF q = <<>> THEN <<order>>
    ELSE IF (IF ascending THEN order.price < Head(q).price
             ELSE order.price > Head(q).price)
         THEN <<order>> \o q
         ELSE <<Head(q)>> \o SortedInsert(Tail(q), order, ascending)

\* MatchSimulator::add_order
add_order(sim, order, is_ask) ==
    IF order.is_market
    THEN IF is_ask
         THEN [sim EXCEPT !.local_orderbook.market_asks = Append(@, order)]
         ELSE [sim EXCEPT !.local_orderbook.market_bids = Append(@, order)]
    ELSE IF is_ask
         THEN [sim EXCEPT !.local_orderbook.asks = SortedInsert(@, order, TRUE)]
         ELSE [sim EXCEPT !.local_orderbook.bids = SortedInsert(@, order, FALSE)]

\* MatchSimulator::remove_order
remove_order(sim, order_id, is_ask, is_market) ==
    LET retain(q) == SelectSeq(q, LAMBDA o : o.id # order_id)
    IN IF is_market
       THEN IF is_ask
            THEN [sim EXCEPT !.local_orderbook.market_asks = retain(@)]
            ELSE [sim EXCEPT !.local_orderbook.market_bids = retain(@)]
       ELSE IF is_ask
            THEN [sim EXCEPT !.local_orderbook.asks = retain(@)]
            ELSE [sim EXCEPT !.local_orderbook.bids = retain(@)]

\* MatchSimulator::apply_state_change; the filled_amount of an
\* UpdateFilledAmount change goes to the log only
apply_state_change(sim, change) ==
    CASE change.kind = "AddOrder" -> add_order(sim, change.order, change.is_ask)
      [] change.kind = "RemoveOrder" ->
            remove_order(sim, change.order_id, change.is_ask, change.is_market)
      [] change.kind = "UpdateFilledAmount" ->
            update_order_filled_amount(sim, change.order_id, change.is_ask)

\* The loop of confirm_changes over the changes of the entry
RECURSIVE ApplyStateChanges(_, _)
ApplyStateChanges(sim, changes) ==
    IF changes = <<>> THEN sim
    ELSE ApplyStateChanges(apply_state_change(sim, Head(changes)), Tail(changes))

\* MatchSimulator::confirm_changes
confirm_changes(sim, tx_hash) ==
    LET pos == PendingPosition(sim, tx_hash) IN
    IF pos # 0
    THEN ApplyStateChanges([sim EXCEPT !.pending_changes = RemoveAt(@, pos)],
                           sim.pending_changes[pos].changes)
    ELSE sim

\* GlobalState::get_request
get_request(queued, request_id) ==
    IF request_id \in DOMAIN queued THEN <<queued[request_id]>> ELSE <<>>

\* execute_batch, step 1: the predictions of the batch's PlaceOrder
\* requests, each made on the simulator as it is
RECURSIVE BatchPredictions(_, _, _)
BatchPredictions(sim, queued, order_ids) ==
    IF order_ids = <<>> THEN <<>>
    ELSE LET found == get_request(queued, Head(order_ids))
             rest == BatchPredictions(sim, queued, Tail(order_ids))
         IN IF found = <<>> \/ found[1].request_type # "PlaceOrder" THEN rest
            ELSE LET request == found[1]
                     prediction ==
                         IF request.order_type = "Limit"
                         THEN predict_limit_order_match(sim, request.price, request.amount,
                                                        request.is_ask)
                         ELSE predict_market_order_match(sim, request.amount, request.is_ask)
                 IN <<[prediction |-> prediction, is_ask |-> request.is_ask]>> \o rest

\* execute_batch, step 4: every prediction is recorded under tx_hash
RECURSIVE RecordPending(_, _, _)
RecordPending(sim, predictions, tx_hash) ==
    IF predictions = <<>> THEN sim
    ELSE RecordPending(apply_prediction_pending(sim, Head(predictions).prediction, tx_hash,
                                                Head(predictions).is_ask),
                       Tail(predictions), tx_hash)

\* -------------------------------------------------------------- Reconciler
\* An OrderBook event as the handlers of watch_orderbook_events read it.
\* `block` is the block whose log holds the event.
Event(kind, order_id, price, amount, is_ask, filled_amount, is_fully_filled, block) ==
    [kind |-> kind, order_id |-> order_id, price |-> price, amount |-> amount,
     is_ask |-> is_ask, filled_amount |-> filled_amount,
     is_fully_filled |-> is_fully_filled, block |-> block]

\* The SimOrder literal of sync.rs, which carries the order's side.
SyncedOrder(id, amount, filled_amount, is_market_order, is_ask, price_level, next_order_id, prev_order_id) ==
    [id |-> id, amount |-> amount, filled_amount |-> filled_amount,
     is_market_order |-> is_market_order, is_ask |-> is_ask,
     price_level |-> price_level, next_order_id |-> next_order_id,
     prev_order_id |-> prev_order_id]

add_existing_price_level(r, level, is_ask) ==
    [r EXCEPT !.price_levels = PutKey(@, get_price_level_key(level.price, is_ask), level)]

add_existing_order(r, order) ==
    [r EXCEPT !.orders = PutKey(@, order.id, order)]

\* watch_orderbook_events, OrderInserted
OnOrderInserted(r, inserted) ==
    LET level_key == get_price_level_key(inserted.price, inserted.is_ask)
        old_tail == IF level_key \in DOMAIN r.price_levels
                    THEN r.price_levels[level_key].tail_order_id
                    ELSE EMPTY
        r1 == IF old_tail # EMPTY
              THEN SetOrder(r, old_tail, "next_order_id", inserted.order_id)
              ELSE r
        r2 == IF level_key \in DOMAIN r1.price_levels
              THEN LET r2a == IF old_tail = EMPTY
                              THEN SetLevel(r1, level_key, "head_order_id", inserted.order_id)
                              ELSE r1
                       r2b == SetLevel(r2a, level_key, "tail_order_id", inserted.order_id)
                   IN SetLevel(r2b, level_key, "total_volume",
                               r2b.price_levels[level_key].total_volume + inserted.amount)
              ELSE r1
    IN [r2 EXCEPT !.orders =
           PutKey(@, inserted.order_id,
                  SyncedOrder(inserted.order_id, inserted.amount, EMPTY, FALSE,
                              inserted.is_ask, inserted.price, EMPTY, old_tail))]

\* watch_orderbook_events, PriceLevelCreated
OnPriceLevelCreated(r, created) ==
    LET r1 == add_existing_price_level(r, SimPriceLevel(created.price), created.is_ask)
        level_key == get_price_level_key(created.price, created.is_ask)
        old_head == SideHead(r1, created.is_ask)
        better == IF created.is_ask THEN created.price < old_head
                  ELSE created.price > old_head
        r2 == IF old_head = EMPTY \/ better
              THEN LET r2a == IF old_head # EMPTY
                              THEN SetLevel(SetLevel(r1, get_price_level_key(old_head, created.is_ask),
                                                     "prev_price", created.price),
                                            level_key, "next_price", old_head)
                              ELSE r1
                   IN SetSideHead(r2a, created.is_ask, created.price)
              ELSE r1
        old_tail == SideTail(r2, created.is_ask)
        worse == IF created.is_ask THEN created.price > old_tail
                 ELSE created.price < old_tail
    IN IF old_tail = EMPTY \/ worse
       THEN SetSideTail(r2, created.is_ask, created.price)
       ELSE r2

\* watch_orderbook_events, PriceLevelRemoved: one branch, for the level found
\* under the key of side is_ask
SpliceOutLevel(r, key, is_ask) ==
    LET prev == r.price_levels[key].prev_price
        next == r.price_levels[key].next_price
        r1 == IF prev # EMPTY
              THEN SetLevel(r, get_price_level_key(prev, is_ask), "next_price", next)
              ELSE SetSideHead(r, is_ask, next)
        r2 == IF next # EMPTY
              THEN SetLevel(r1, get_price_level_key(next, is_ask), "prev_price", prev)
              ELSE SetSideTail(r1, is_ask, prev)
    IN [r2 EXCEPT !.price_levels = RemoveKey(@, key)]

\* watch_orderbook_events, PriceLevelRemoved: the ask key first, then the bid key
OnPriceLevelRemoved(r, removed) ==
    LET ask_key == get_price_level_key(removed.price, TRUE)
        bid_key == get_price_level_key(removed.price, FALSE)
    IN IF ask_key \in DOMAIN r.price_levels THEN SpliceOutLevel(r, ask_key, TRUE)
       ELSE IF bid_key \in DOMAIN r.price_levels THEN SpliceOutLevel(r, bid_key, FALSE)
       ELSE r

\* watch_orderbook_events, OrderFilled
OnOrderFilled(r, filled) ==
    IF filled.is_fully_filled
    THEN [r EXCEPT !.orders = RemoveKey(@, filled.order_id)]
    ELSE SetOrder(r, filled.order_id, "filled_amount", filled.filled_amount)

\* watch_orderbook_events, OrderRemoved
OnOrderRemoved(r, removed) ==
    [r EXCEPT !.orders = RemoveKey(@, removed.order_id)]

\* The contract's orders(order_id): the order, or the zero record of an unset
\* mapping entry.
chain_orders(b, order_id) ==
    IF order_id \in DOMAIN b.orders THEN b.orders[order_id]
    ELSE SimOrder(EMPTY, EMPTY, FALSE, EMPTY)

\* sync_orders_at_price_level on the book b of the contract
RECURSIVE SyncOrdersWalk(_, _, _, _, _)
SyncOrdersWalk(r, b, current_order_id, is_ask, fuel) ==
    IF current_order_id = EMPTY \/ fuel = 0 THEN r
    ELSE LET order_data == chain_orders(b, current_order_id)
             sim_order == SyncedOrder(order_data.id, order_data.amount,
                                      order_data.filled_amount, order_data.is_market_order,
                                      is_ask, order_data.price_level,
                                      order_data.next_order_id, order_data.prev_order_id)
         IN SyncOrdersWalk(add_existing_order(r, sim_order), b,
                           sim_order.next_order_id, is_ask, fuel - 1)

sync_orders_at_price_level(r, b, level, is_ask) ==
    SyncOrdersWalk(r, b, level.head_order_id, is_ask, Cardinality(DOMAIN b.orders) + 1)

\* sync_price_levels on the book b of the contract
RECURSIVE SyncLevelsWalk(_, _, _, _, _)
SyncLevelsWalk(r, b, current_price, is_ask, fuel) ==
    IF current_price = EMPTY \/ fuel = 0 THEN r
    ELSE LET sim_level == chain_price_levels(b, current_price, is_ask)
             r1 == sync_orders_at_price_level(r, b, sim_level, is_ask)
             r2 == add_existing_price_level(r1, sim_level, is_ask)
         IN SyncLevelsWalk(r2, b, sim_level.next_price, is_ask, fuel - 1)

sync_price_levels(r, b, head_price, is_ask) ==
    SyncLevelsWalk(r, b, head_price, is_ask, Cardinality(DOMAIN b.price_levels) + 1)

\* sync_trading_pair_orderbook into a Replica just constructed: the cold
\* sync of the book b of the contract
sync_trading_pair_orderbook(b) ==
    LET r0 == [NewBook EXCEPT !.ask_head = b.ask_head, !.ask_tail = b.ask_tail,
                              !.bid_head = b.bid_head, !.bid_tail = b.bid_tail]
    IN sync_price_levels(sync_price_levels(r0, b, b.ask_head, TRUE), b, b.bid_head, FALSE)

\* The elements of a finite set of numbers in ascending order.
RECURSIVE Ascending(_)
Ascending(S) ==
    IF S = {} THEN <<>>
    ELSE LET m == CHOOSE x \in S : \A y \in S : x <= y
         IN <<m>> \o Ascending(S \ {m})

\* The OrderFilled events of a call that took the contract's book from b to
\* b2: one per order whose filled amount changed, with the amount filled in
\* the end; an order that left the table in the call is filled completely.
FilledEvents(b, b2, new_order, block) ==
    LET before(id) == IF id \in DOMAIN b.orders THEN b.orders[id] ELSE new_order
        touched == {id \in (DOMAIN b.orders) \cup {new_order.id} :
                       \/ id \notin DOMAIN b2.orders
                       \/ b2.orders[id].filled_amount # before(id).filled_amount}
        ids == Ascending(touched)
    IN [i \in 1..Len(ids) |->
           IF ids[i] \in DOMAIN b2.orders
           THEN Event("OrderFilled", ids[i], EMPTY, EMPTY, FALSE,
                      b2.orders[ids[i]].filled_amount, FALSE, block)
           ELSE Event("OrderFilled", ids[i], EMPTY, EMPTY, FALSE,
                      before(ids[i]).amount, TRUE, block)]

\* The PriceLevelRemoved events of such a call: one per level of `keys` that
\* b2 no longer holds.  The event of the contract carries the price only;
\* is_ask records the side of the level the contract removed, and
\* OnPriceLevelRemoved does not read it.
LevelRemovedEvents(b2, keys, block) ==
    LET gone == Ascending({k \in keys : k \notin DOMAIN b2.price_levels})
    IN [i \in 1..Len(gone) |->
           Event("PriceLevelRemoved", EMPTY,
                 IF KeyIsAsk(gone[i]) THEN gone[i] ELSE gone[i] - BidBit,
                 EMPTY, KeyIsAsk(gone[i]), EMPTY, FALSE, block)]

\* The events of the contract placing limit order order_id, in the order it
\* emits them: the creation of the level, the insertion, the fills of the
\* matching, the levels the matching destroyed.
PlaceEvents(b, b2, order_id, price, amount, is_ask, block) ==
    LET key == get_price_level_key(price, is_ask) IN
    (IF key \in DOMAIN b.price_levels THEN <<>>
     ELSE <<Event("PriceLevelCreated", EMPTY, price, EMPTY, is_ask, EMPTY, FALSE, block)>>)
    \o <<Event("OrderInserted", order_id, price, amount, is_ask, EMPTY, FALSE, block)>>
    \o FilledEvents(b, b2, SimOrder(order_id, amount, FALSE, price), block)
    \o LevelRemovedEvents(b2, (DOMAIN b.price_levels) \cup {key}, block)

\* The events of the contract removing order order_id.
RemoveEvents(b, b2, order_id, block) ==
    <<Event("OrderRemoved", order_id, EMPTY, EMPTY, FALSE, EMPTY, FALSE, block)>>
    \o LevelRemovedEvents(b2, DOMAIN b.price_levels, block)

\* The contract places a limit order of a positive amount and emits its events.
ChainPlaceLimitOrder ==
    /\ nextId <= MaxOrders
    /\ chain_block < MaxBlock
    /\ Len(events) < MaxLog
    /\ \E price \in Prices, amount \in Amounts \ {0}, is_ask \in BOOLEAN :
          LET r == simulate_insert_order(book, nextId, price, amount, is_ask) IN
          /\ book' = r.b
          /\ events' = events \o PlaceEvents(book, r.b, nextId, price, amount,
                                              is_ask, chain_block + 1)
    /\ nextId' = nextId + 1
    /\ chain_block' = chain_block + 1
    /\ UNCHANGED <<last, replica, current_block, synced_block, sequencer_events>>
    /\ UNCHANGED dvars
    /\ UNCHANGED pvars
    /\ UNCHANGED cvars

\* The contract removes a resting order, on its own side, and emits its events.
ChainRemoveOrder ==
    /\ chain_block < MaxBlock
    /\ Len(events) < MaxLog
    /\ \E order_id \in DOMAIN book.orders :
          LET r == simulate_remove_order(book, order_id, book.g_side[order_id]) IN
          /\ book' = r.b
          /\ events' = events \o RemoveEvents(book, r.b, order_id, chain_block + 1)
    /\ chain_block' = chain_block + 1
    /\ UNCHANGED <<nextId, last, replica, current_block, synced_block, sequencer_events>>
    /\ UNCHANGED dvars
    /\ UNCHANGED pvars
    /\ UNCHANGED cvars

\* One turn of the loop of watch_orderbook_events: the OrderInserted branch
OrderInserted ==
    /\ sync_pc = "warm"
    /\ events # <<>>
    /\ Head(events).kind = "OrderInserted"
    /\ replica' = OnOrderInserted(replica, Head(events))
    /\ events' = Tail(events)
    /\ UNCHANGED <<book, nextId, last>>
    /\ UNCHANGED dvars
    /\ UNCHANGED pvars
    /\ UNCHANGED bvars

\* One turn of the loop of watch_orderbook_events: the PriceLevelCreated branch
PriceLevelCreated ==
    /\ sync_pc = "warm"
    /\ events # <<>>
    /\ Head(events).kind = "PriceLevelCreated"
    /\ replica' = OnPriceLevelCreated(replica, Head(events))
    /\ events' = Tail(events)
    /\ UNCHANGED <<book, nextId, last>>
    /\ UNCHANGED dvars
    /\ UNCHANGED pvars
    /\ UNCHANGED bvars

\* One turn of the loop of watch_orderbook_events: the PriceLevelRemoved branch
PriceLevelRemoved ==
    /\ sync_pc = "warm"
    /\ events # <<>>
    /\ Head(events).kind = "PriceLevelRemoved"
    /\ replica' = OnPriceLevelRemoved(replica, Head(events))
    /\ events' = Tail(events)
    /\ UNCHANGED <<book, nextId, last>>
    /\ UNCHANGED dvars
    /\ UNCHANGED pvars
    /\ UNCHANGED bvars

\* One turn of the loop of watch_orderbook_events: the OrderFilled branch
OrderFilled ==
    /\ sync_pc = "warm"
    /\ events # <<>>
    /\ Head(events).kind = "OrderFilled"
    /\ replica' = OnOrderFilled(replica, Head(events))
    /\ events' = Tail(events)
    /\ UNCHANGED <<book, nextId, last>>
    /\ UNCHANGED dvars
    /\ UNCHANGED pvars
    /\ UNCHANGED bvars

\* One turn of the loop of watch_orderbook_events: the OrderRemoved branch
OrderRemoved ==
    /\ sync_pc = "warm"
    /\ events # <<>>
    /\ Head(events).kind = "OrderRemoved"
    /\ replica' = OnOrderRemoved(replica, Head(events))
    /\ events' = Tail(events)
    /\ UNCHANGED <<book, nextId, last>>
    /\ UNCHANGED dvars
    /\ UNCHANGED pvars
    /\ UNCHANGED bvars

\* StateSynchronizer::run with sync_historical off: watch_events starts with
\* synced_block as `new` left it, and the streams begin at the first block.
SkipHistoricalSync ==
    /\ sync_pc = "cold"
    /\ sync_pc' = "warm"
    /\ UNCHANGED <<book, nextId, last, queued_requests, queue_head, engine_pc, requests,
                   match_result>>
    /\ UNCHANGED rvars
    /\ UNCHANGED pvars
    /\ UNCHANGED bvars

NextReplay ==
    \/ SkipHistoricalSync
    \/ ChainPlaceLimitOrder
    \/ ChainRemoveOrder
    \/ OrderInserted
    \/ PriceLevelCreated
    \/ PriceLevelRemoved
    \/ OrderFilled
    \/ OrderRemoved

\* SpecReplay: the contract's book and its event trace, replayed by the
\* Reconciler into a Replica that starts empty.
SpecReplay == Init /\ [][NextReplay]_vars

\* ------------------------------------------- Reconciler: cold, then warm
\* The first block of the event filters of watch_orderbook_events and of
\* watch_sequencer_events, were it from_block itself
event_start_block_inclusive(from_block) == from_block

\* The first block of the event filters of watch_orderbook_events and of
\* watch_sequencer_events
event_start_block(from_block) == from_block + 1

\* A Sequencer event: the request as queued_requests(id) returns it, and the
\* block whose log holds the event
SequencerEvent(kind, request_id, data, block) ==
    [kind |-> kind, request_id |-> request_id, data |-> data, block |-> block]

\* The requests users send while the Reconciler starts
WarmRequestData ==
    {d \in ChainRequestData :
        d.request_type = "PlaceOrder" => (d.amount = MaxAmount /\ d.price \in {EMPTY, MaxPrice})}

\* The Sequencer contract queues a request to place an order, in a new block
ChainRequestPlaceOrder ==
    /\ nextId <= MaxOrders
    /\ chain_block < MaxBlock
    /\ Len(sequencer_events) < MaxLog
    /\ \E data \in {d \in WarmRequestData : d.request_type = "PlaceOrder"} :
          sequencer_events' = Append(sequencer_events,
                                     SequencerEvent("PlaceOrderRequested", nextId, data,
                                                    chain_block + 1))
    /\ nextId' = nextId + 1
    /\ chain_block' = chain_block + 1
    /\ UNCHANGED <<book, last, current_block, synced_block>>
    /\ UNCHANGED dvars
    /\ UNCHANGED rvars
    /\ UNCHANGED pvars
    /\ UNCHANGED cvars

\* The Sequencer contract queues a request to remove an order, in a new block
ChainRequestRemoveOrder ==
    /\ nextId <= MaxOrders
    /\ chain_block < MaxBlock
    /\ Len(sequencer_events) < MaxLog
    /\ \E data \in {d \in WarmRequestData : d.request_type = "RemoveOrder"} :
          sequencer_events' = Append(sequencer_events,
                                     SequencerEvent("RemoveOrderRequested", nextId, data,
                                                    chain_block + 1))
    /\ nextId' = nextId + 1
    /\ chain_block' = chain_block + 1
    /\ UNCHANGED <<book, last, current_block, synced_block>>
    /\ UNCHANGED dvars
    /\ UNCHANGED rvars
    /\ UNCHANGED pvars
    /\ UNCHANGED cvars

\* sync_historical_state, its first await: get_block_number.  The height it
\* reads becomes from_block, so the OrderBook events of the blocks before
\* event_start_block of that height will reach no stream and leave the log.
GetBlockNumber ==
    /\ sync_pc = "cold"
    /\ current_block' = chain_block
    /\ sync_pc' = "syncing"
    /\ events' = SelectSeq(events, LAMBDA e : e.block >= event_start_block(chain_block))
    /\ UNCHANGED <<book, nextId, last, queued_requests, queue_head, engine_pc, requests,
                   match_result>>
    /\ UNCHANGED <<chain_block, synced_block, sequencer_events>>
    /\ UNCHANGED replica
    /\ UNCHANGED pvars
    /\ UNCHANGED cvars

\* The mirror sync_sequencer_state builds from the contract's queue, whose
\* requests are those of the log q
SyncedQueue(q) ==
    [id \in {q[i].request_id : i \in 1..Len(q)} |->
        LET i == CHOOSE j \in 1..Len(q) : q[j].request_id = id
        IN SyncedRequest(id, q[i].data,
                         IF i = Len(q) THEN EMPTY ELSE q[i + 1].request_id)]

\* The rest of sync_historical_state and the subscriptions of watch_events:
\* the queue and, for the trading pair of a queued request, the order book
\* are read from the contracts as they are now; synced_block takes the
\* height read first; the streams deliver the events of the blocks from
\* event_start_block on.
SyncHistoricalState ==
    /\ sync_pc = "syncing"
    /\ queue_head' = IF sequencer_events = <<>> THEN EMPTY
                     ELSE sequencer_events[1].request_id
    /\ queued_requests' = SyncedQueue(sequencer_events)
    /\ replica' = IF sequencer_events = <<>> THEN replica
                  ELSE sync_trading_pair_orderbook(book)
    /\ synced_block' = current_block
    /\ events' = SelectSeq(events,
                           LAMBDA e : e.block >= event_start_block(current_block))
    /\ sequencer_events' = SelectSeq(sequencer_events,
                                     LAMBDA e : e.block >= event_start_block(current_block))
    /\ sync_pc' = "warm"
    /\ UNCHANGED <<book, nextId, last, engine_pc, requests, match_result>>
    /\ UNCHANGED <<chain_block, current_block>>
    /\ UNCHANGED pvars
    /\ UNCHANGED cvars

\* watch_sequencer_events, PlaceOrderRequested: the oldest event of the stream
PlaceOrderRequestedEvent ==
    /\ sync_pc = "warm"
    /\ sequencer_events # <<>>
    /\ Head(sequencer_events).kind = "PlaceOrderRequested"
    /\ LET place_order == Head(sequencer_events) IN
          /\ queued_requests' =
                PutKey(queued_requests, place_order.request_id,
                       QueuedRequest(place_order.request_id, "PlaceOrder",
                                     place_order.data.order_type, place_order.data.is_ask,
                                     place_order.data.price, place_order.data.amount,
                                     EMPTY, EMPTY))
          /\ queue_head' = place_order.request_id
    /\ sequencer_events' = Tail(sequencer_events)
    /\ UNCHANGED <<book, nextId, last, sync_pc, engine_pc, requests, match_result>>
    /\ UNCHANGED <<chain_block, current_block, synced_block>>
    /\ UNCHANGED rvars
    /\ UNCHANGED pvars
    /\ UNCHANGED cvars

\* watch_sequencer_events, RemoveOrderRequested: the oldest event of the stream
RemoveOrderRequestedEvent ==
    /\ sync_pc = "warm"
    /\ sequencer_events # <<>>
    /\ Head(sequencer_events).kind = "RemoveOrderRequested"
    /\ LET event == Head(sequencer_events) IN
          /\ queued_requests' =
                PutKey(queued_requests, event.request_id,
                       QueuedRequest(event.request_id, "RemoveOrder", "Limit", FALSE,
                                     EMPTY, EMPTY, event.data.price, EMPTY))
          /\ queue_head' = event.request_id
    /\ sequencer_events' = Tail(sequencer_events)
    /\ UNCHANGED <<book, nextId, last, sync_pc, engine_pc, requests, match_result>>
    /\ UNCHANGED <<chain_block, current_block, synced_block>>
    /\ UNCHANGED rvars
    /\ UNCHANGED pvars
    /\ UNCHANGED cvars

\* The contracts, the cold sync and the two subscriptions of the warm phase
NextWarm ==
    \/ ChainPlaceLimitOrder
    \/ ChainRemoveOrder
    \/ ChainRequestPlaceOrder
    \/ ChainRequestRemoveOrder
    \/ GetBlockNumber
    \/ SyncHistoricalState
    \/ OrderInserted
    \/ PriceLevelCreated
    \/ PriceLevelRemoved
    \/ OrderFilled
    \/ OrderRemoved
    \/ PlaceOrderRequestedEvent
    \/ RemoveOrderRequestedEvent

SpecWarm == Init /\ [][NextWarm]_vars

\* ------------------------------------------------- Reconciler: the streams
\* watch_orderbook_events subscribes one stream per event type; the stream of
\* a kind delivers the events of that kind in chain order.  The position in
\* the log of the next event of stream `kind`, or 0.
StreamPosition(q, kind) ==
    IF \E i \in 1..Len(q) : q[i].kind = kind
    THEN CHOOSE i \in 1..Len(q) :
            /\ q[i].kind = kind
            /\ \A j \in 1..(i - 1) : q[j].kind # kind
    ELSE 0

\* One turn of the select! loop taking the arm of order_inserted_stream: the
\* oldest OrderInserted event not yet applied, whatever older events of
\* other kinds wait in their streams
OrderInsertedSelected ==
    /\ sync_pc = "warm"
    /\ StreamPosition(events, "OrderInserted") # 0
    /\ replica' = OnOrderInserted(replica, events[StreamPosition(events, "OrderInserted")])
    /\ events' = RemoveAt(events, StreamPosition(events, "OrderInserted"))
    /\ UNCHANGED <<book, nextId, last>>
    /\ UNCHANGED dvars
    /\ UNCHANGED pvars
    /\ UNCHANGED bvars

\* One turn of the select! loop taking the arm of price_level_created_stream: the
\* oldest PriceLevelCreated event not yet applied, whatever older events of
\* other kinds wait in their streams
PriceLevelCreatedSelected ==
    /\ sync_pc = "warm"
    /\ StreamPosition(events, "PriceLevelCreated") # 0
    /\ replica' = OnPriceLevelCreated(replica, events[StreamPosition(events, "PriceLevelCreated")])
    /\ events' = RemoveAt(events, StreamPosition(events, "PriceLevelCreated"))
    /\ UNCHANGED <<book, nextId, last>>
    /\ UNCHANGED dvars
    /\ UNCHANGED pvars
    /\ UNCHANGED bvars

\* One turn of the select! loop taking the arm of price_level_removed_stream: the
\* oldest PriceLevelRemoved event not yet applied, whatever older events of
\* other kinds wait in their streams
PriceLevelRemovedSelected ==
    /\ sync_pc = "warm"
    /\ StreamPosition(events, "PriceLevelRemoved") # 0
    /\ replica' = OnPriceLevelRemoved(replica, events[StreamPosition(events, "PriceLevelRemoved")])
    /\ events' = RemoveAt(events, StreamPosition(events, "PriceLevelRemoved"))
    /\ UNCHANGED <<book, nextId, last>>
    /\ UNCHANGED dvars
    /\ UNCHANGED pvars
    /\ UNCHANGED bvars

\* One turn of the select! loop taking the arm of order_filled_stream: the
\* oldest OrderFilled event not yet applied, whatever older events of
\* other kinds wait in their streams
OrderFilledSelected ==
    /\ sync_pc = "warm"
    /\ StreamPosition(events, "OrderFilled") # 0
    /\ replica' = OnOrderFilled(replica, events[StreamPosition(events, "OrderFilled")])
    /\ events' = RemoveAt(events, StreamPosition(events, "OrderFilled"))
    /\ UNCHANGED <<book, nextId, last>>
    /\ UNCHANGED dvars
    /\ UNCHANGED pvars
    /\ UNCHANGED bvars

\* One turn of the select! loop taking the arm of order_removed_stream: the
\* oldest OrderRemoved event not yet applied, whatever older events of
\* other kinds wait in their streams
OrderRemovedSelected ==
    /\ sync_pc = "warm"
    /\ StreamPosition(events, "OrderRemoved") # 0
    /\ replica' = OnOrderRemoved(replica, events[StreamPosition(events, "OrderRemoved")])
    /\ events' = RemoveAt(events, StreamPosition(events, "OrderRemoved"))
    /\ UNCHANGED <<book, nextId, last>>
    /\ UNCHANGED dvars
    /\ UNCHANGED pvars
    /\ UNCHANGED bvars

\* The contract and the select! loop of watch_orderbook_events over its
\* streams
NextStreams ==
    \/ SkipHistoricalSync
    \/ ChainPlaceLimitOrder
    \/ ChainRemoveOrder
    \/ OrderInsertedSelected
    \/ PriceLevelCreatedSelected
    \/ PriceLevelRemovedSelected
    \/ OrderFilledSelected
    \/ OrderRemovedSelected

SpecStreams == Init /\ [][NextStreams]_vars

\* ------------------------------------------------- Dispatcher: batches
\* process_batch up to its first await: the snapshot; an empty snapshot
\* ends the tick.
GetHeadRequests ==
    /\ engine_pc = "tick"
    /\ requests' = get_head_requests(queued_requests, queue_head, MaxBatchSize)
    /\ engine_pc' = IF requests' = <<>> THEN "tick" ELSE "calculate"
    /\ UNCHANGED <<book, nextId, last, queued_requests, queue_head, sync_pc, match_result>>
    /\ UNCHANGED rvars
    /\ UNCHANGED pvars
    /\ UNCHANGED bvars

\* process_batch: calculate_insert_positions on the snapshot
CalculateInsertPositions ==
    /\ engine_pc = "calculate"
    /\ match_result' = calculate_insert_positions(book, requests)
    /\ engine_pc' = "calculated"
    /\ UNCHANGED <<book, nextId, last, queued_requests, queue_head, sync_pc, requests>>
    /\ UNCHANGED rvars
    /\ UNCHANGED pvars
    /\ UNCHANGED bvars

\* process_batch: an empty MatchResult ends the tick
NoValidOrders ==
    /\ engine_pc = "calculated"
    /\ match_result.order_ids = <<>>
    /\ engine_pc' = "tick"
    /\ requests' = <<>>
    /\ match_result' = NewMatchResult
    /\ UNCHANGED <<book, nextId, last, queued_requests, queue_head, sync_pc>>
    /\ UNCHANGED rvars
    /\ UNCHANGED pvars
    /\ UNCHANGED bvars

\* The events the contract emits for request id of a batch, which takes
\* its book from b to b1
ChainRequestEvents(b, b1, queued, id, block) ==
    IF id \notin DOMAIN queued THEN <<>>
    ELSE LET r == queued[id] IN
         IF r.request_type = "RemoveOrder"
         THEN IF r.order_id_to_remove \in DOMAIN b.g_side
              THEN RemoveEvents(b, b1, r.order_id_to_remove, block)
              ELSE <<>>
         ELSE IF r.order_type = "Limit"
         THEN PlaceEvents(b, b1, id, r.price, r.amount, r.is_ask, block)
         ELSE FilledEvents(b, b1, SimOrder(id, r.amount, TRUE, EMPTY), block)
              \o LevelRemovedEvents(b1, DOMAIN b.price_levels, block)

\* The books of the contract before each request of a batch, and after the
\* last one
RECURSIVE ChainBatchBooks(_, _, _)
ChainBatchBooks(b, queued, order_ids) ==
    IF order_ids = <<>> THEN <<b>>
    ELSE <<b>> \o ChainBatchBooks(ChainProcessRequest(b, queued, Head(order_ids)), queued,
                                  Tail(order_ids))

\* Concatenation of the sequences of q
RECURSIVE Flatten(_)
Flatten(q) == IF q = <<>> THEN <<>> ELSE Head(q) \o Flatten(Tail(q))

\* The events the contract emits for a batch it accepts, request by request,
\* all in the block that holds the batch transaction.
ChainBatchEvents(books, queued, order_ids, block) ==
    Flatten([k \in 1..Len(order_ids) |->
                ChainRequestEvents(books[k], books[k + 1], queued, order_ids[k], block)])

\* execute_batch, steps 1 and 4: the predictions made before the send are
\* recorded under the hash of the transaction
RecordBatch(sim, queued, order_ids, tx_hash) ==
    RecordPending(sim, BatchPredictions(sim, queued, order_ids), tx_hash)

\* execute_batch with a receipt of status 1: the contract has processed the
\* batch in a new block and emitted its events; the pending entries stay;
\* step 6 removes the batch's requests from the mirror and resets the queue
\* head.
ExecuteBatchConfirmed ==
    /\ engine_pc = "calculated"
    /\ match_result.order_ids # <<>>
    /\ tx_count < MaxTx
    /\ tx_count' = tx_count + 1
    /\ simulator' = [RecordBatch(simulator, queued_requests, match_result.order_ids,
                                 tx_count + 1)
                        EXCEPT !.g_succeeded = @ \cup {tx_count + 1}]
    /\ \E books \in {ChainBatchBooks(book, queued_requests, match_result.order_ids)} :
          /\ book' = books[Len(books)]
          /\ events' = events \o ChainBatchEvents(books, queued_requests,
                                                  match_result.order_ids, chain_block + 1)
    /\ chain_block' = chain_block + 1
    /\ queued_requests' = remove_requests(queued_requests, match_result.order_ids)
    /\ LET remaining == get_head_requests(queued_requests', queue_head, 1) IN
       queue_head' = IF remaining # <<>> THEN remaining[1].request_id
                     ELSE EMPTY
    /\ engine_pc' = "tick"
    /\ requests' = <<>>
    /\ match_result' = NewMatchResult
    /\ UNCHANGED <<nextId, last, sync_pc, replica, current_block, synced_block,
                   sequencer_events>>
    /\ UNCHANGED cvars

\* execute_batch with a receipt of status 0, no receipt, or an error while
\* waiting for it: the pending entries were recorded at step 4,
\* rollback_changes is called once, and the error returns before step 6.
ExecuteBatchFailed ==
    /\ engine_pc = "calculated"
    /\ match_result.order_ids # <<>>
    /\ tx_count < MaxTx
    /\ tx_count' = tx_count + 1
    /\ simulator' = rollback_changes(RecordBatch(simulator, queued_requests,
                                                 match_result.order_ids, tx_count + 1),
                                     tx_count + 1)
    /\ engine_pc' = "tick"
    /\ requests' = <<>>
    /\ match_result' = NewMatchResult
    /\ UNCHANGED <<book, nextId, last, queued_requests, queue_head, sync_pc>>
    /\ UNCHANGED rvars
    /\ UNCHANGED bvars

\* execute_batch whose send fails: the `?` returns before a hash exists,
\* nothing is recorded and step 6 is not reached.
ExecuteBatchSendFailed ==
    /\ engine_pc = "calculated"
    /\ match_result.order_ids # <<>>
    /\ engine_pc' = "tick"
    /\ requests' = <<>>
    /\ match_result' = NewMatchResult
    /\ UNCHANGED <<book, nextId, last, queued_requests, queue_head, sync_pc>>
    /\ UNCHANGED rvars
    /\ UNCHANGED pvars
    /\ UNCHANGED bvars

\* The sweep of run on a tenth tick that comes when entries have become
\* older than the timeout, whatever the time the ticks before it took
CleanupExpiredChanges ==
    /\ engine_pc = "tick"
    /\ \E instant \in (now + 1)..MaxTime :
          /\ now' = instant
          /\ simulator' = cleanup_expired_changes(simulator, instant, cleanup_timeout)
    /\ simulator'.pending_changes # simulator.pending_changes
    /\ UNCHANGED <<tx_count, cleanup_counter>>
    /\ UNCHANGED <<book, nextId, last>>
    /\ UNCHANGED dvars
    /\ UNCHANGED rvars
    /\ UNCHANGED <<chain_block, current_block, synced_block, sequencer_events,
                   chain_requests, match_iterations, xvars>>

\* MatchingEngine::run, one turn of the loop up to the first await of
\* process_batch, when every turn takes one tick interval: the ticker fires
\* (now counts from one interval before its first tick), the counter of the
\* sweep goes up, its tenth value sweeps and starts again, and process_batch
\* takes its snapshot; an empty snapshot ends the tick.
LoopTick ==
    /\ engine_pc = "tick"
    /\ now < MaxTime
    /\ now' = now + 1
    /\ cleanup_counter' = IF cleanup_counter + 1 >= CleanupEvery THEN 0
                          ELSE cleanup_counter + 1
    /\ simulator' = IF cleanup_counter + 1 >= CleanupEvery
                    THEN cleanup_expired_changes(simulator, now', cleanup_timeout)
                    ELSE simulator
    /\ requests' = get_head_requests(queued_requests, queue_head, MaxBatchSize)
    /\ engine_pc' = IF requests' = <<>> THEN "tick" ELSE "calculate"
    /\ UNCHANGED <<book, nextId, last, queued_requests, queue_head, sync_pc, match_result>>
    /\ UNCHANGED tx_count
    /\ UNCHANGED rvars
    /\ UNCHANGED <<chain_block, current_block, synced_block, sequencer_events,
                   chain_requests, match_iterations, xvars>>

\* The Reconciler hands a resting order of the chain to the MatchSimulator
\* while it builds the historical state.
SimulatorAddOrder ==
    /\ sync_pc = "cold"
    /\ nextId <= MaxOrders
    /\ \E price \in Prices, amount \in Amounts \ {0}, is_market \in BOOLEAN,
          is_ask \in BOOLEAN :
          simulator' = add_order(simulator,
                                 LocalOrder(nextId, IF is_market THEN EMPTY ELSE price,
                                            amount, EMPTY, is_market),
                                 is_ask)
    /\ nextId' = nextId + 1
    /\ UNCHANGED tx_count
    /\ UNCHANGED <<book, last>>
    /\ UNCHANGED dvars
    /\ UNCHANGED rvars
    /\ UNCHANGED bvars

NextDispatcher ==
    \/ SyncSequencerState
    \/ PlaceOrderRequested
    \/ RemoveOrderRequested
    \/ GetHeadRequests
    \/ CalculateInsertPositions
    \/ NoValidOrders
    \/ ExecuteBatchConfirmed
    \/ ExecuteBatchFailed
    \/ ExecuteBatchSendFailed

SpecDispatcher == Init /\ [][NextDispatcher]_vars

\* The Dispatcher with its MatchSimulator, over a queue taken by the cold
\* sync, and the Reconciler applying the events of the batches.
NextPending ==
    \/ SimulatorAddOrder
    \/ SyncSequencerState
    \/ GetHeadRequests
    \/ CalculateInsertPositions
    \/ NoValidOrders
    \/ ExecuteBatchConfirmed
    \/ ExecuteBatchFailed
    \/ ExecuteBatchSendFailed
    \/ CleanupExpiredChanges
    \/ OrderInserted
    \/ PriceLevelCreated
    \/ PriceLevelRemoved
    \/ OrderFilled

SpecPending == Init /\ [][NextPending]_vars

\* -------------------------------------------- MatchSimulator: predictions
\* MatchSimulator::add_order with a resting order of the chain, which may
\* be partly filled
AddPartlyFilledOrder ==
    /\ nextId <= MaxOrders
    /\ \E price \in Prices, amount \in Amounts \ {0}, is_market \in BOOLEAN,
          is_ask \in BOOLEAN :
          \E filled_amount \in 0..(amount - 1) :
              simulator' = add_order(simulator,
                                     LocalOrder(nextId, IF is_market THEN EMPTY ELSE price,
                                                amount, filled_amount, is_market),
                                     is_ask)
    /\ nextId' = nextId + 1
    /\ last' = NoCall
    /\ UNCHANGED tx_count
    /\ UNCHANGED book
    /\ UNCHANGED dvars
    /\ UNCHANGED rvars
    /\ UNCHANGED bvars

\* MatchSimulator::predict_limit_order_match on the local order book; last
\* holds the call and the MatchPrediction it returned
PredictLimitOrderMatch ==
    /\ \E price \in Prices, amount \in Amounts, is_ask \in BOOLEAN :
          last' = [op |-> "predict_limit_order_match", price |-> price,
                   amount |-> amount, is_ask |-> is_ask,
                   ret |-> predict_limit_order_match(simulator, price, amount, is_ask)]
    /\ UNCHANGED <<book, nextId>>
    /\ UNCHANGED pvars
    /\ UNCHANGED dvars
    /\ UNCHANGED rvars
    /\ UNCHANGED bvars

NextPredict ==
    \/ AddPartlyFilledOrder
    \/ PredictLimitOrderMatch

SpecPredict == Init /\ [][NextPredict]_vars

\* The Reconciler has observed the events of a successful batch and
\* confirms the changes recorded under its hash.
ConfirmChanges ==
    /\ engine_pc = "tick"
    /\ \E tx_hash \in simulator.g_succeeded :
          /\ PendingPosition(simulator, tx_hash) # 0
          /\ simulator' = confirm_changes(simulator, tx_hash)
    /\ UNCHANGED tx_count
    /\ UNCHANGED <<book, nextId, last>>
    /\ UNCHANGED dvars
    /\ UNCHANGED rvars
    /\ UNCHANGED bvars

\* The Dispatcher with its MatchSimulator and the confirmation of the
\* batches that succeeded.
NextConfirm ==
    \/ SimulatorAddOrder
    \/ SyncSequencerState
    \/ GetHeadRequests
    \/ CalculateInsertPositions
    \/ NoValidOrders
    \/ ExecuteBatchConfirmed
    \/ ExecuteBatchFailed
    \/ ExecuteBatchSendFailed
    \/ ConfirmChanges

SpecConfirm == Init /\ [][NextConfirm]_vars

\* The loop of the Dispatcher against the clock: every turn takes one tick
\* interval, the mirror receives requests while the loop runs, and no event
\* handler touches the pending set.
NextSweep ==
    \/ SimulatorAddOrder
    \/ SyncSequencerState
    \/ PlaceOrderRequested
    \/ LoopTick
    \/ CalculateInsertPositions
    \/ NoValidOrders
    \/ ExecuteBatchConfirmed
    \/ ExecuteBatchFailed
    \/ ExecuteBatchSendFailed

SpecSweep == Init /\ [][NextSweep]_vars

\* SpecPending with the scheduling of the runtime: the select! loop of the
\* Reconciler takes every event that waits, and the ticker of the
\* Dispatcher fires again and again.  The timeout sweep is left without
\* fairness: it is the fallback for entries nothing else takes away.
PendingFairness ==
    /\ WF_vars(OrderInserted)
    /\ WF_vars(PriceLevelCreated)
    /\ WF_vars(PriceLevelRemoved)
    /\ WF_vars(OrderFilled)
    /\ WF_vars(GetHeadRequests)
    /\ WF_vars(CalculateInsertPositions)
    /\ WF_vars(NoValidOrders)

SpecPendingFair == SpecPending /\ PendingFairness


\* --------------------------------------- Reconciler: the walk of the queue
\* try_into().unwrap_or(0) of a tag into u8
tag_u8(raw) == IF raw < 2^8 THEN raw ELSE 0

\* What queued_requests(id) of the contract may return: the request kind
\* and the order type are the numbers the ABI carries
RawRequestData ==
    [request_type : 0..MaxTag, order_type : 0..MaxTag, is_ask : BOOLEAN,
     price : Prices, amount : Amounts \ {0}]

\* The Sequencer contract takes a request into its queue before the
\* Reconciler starts
ChainQueueRequest ==
    /\ sync_pc = "cold"
    /\ Len(chain_requests) < MaxQueue
    /\ \E data \in RawRequestData : chain_requests' = Append(chain_requests, data)
    /\ UNCHANGED <<book, nextId, last>>
    /\ UNCHANGED dvars
    /\ UNCHANGED rvars
    /\ UNCHANGED pvars
    /\ UNCHANGED <<chain_block, current_block, synced_block, sequencer_events>>
    /\ UNCHANGED <<match_iterations, tvars, xvars>>

\* sync_sequencer_state, the loop from current_id: a request of unknown
\* kind ends the walk, an order type that is not 0 or 1 is read as Limit
RECURSIVE SyncQueueWalk(_, _, _)
SyncQueueWalk(chain, current_id, queued) ==
    IF current_id = EMPTY THEN queued
    ELSE LET request_data == chain[current_id]
             next_id == IF current_id < Len(chain) THEN current_id + 1 ELSE EMPTY
             request_type_u8 == tag_u8(request_data.request_type)
             order_type_u8 == tag_u8(request_data.order_type)
         IN IF request_type_u8 \notin {0, 1} THEN queued
            ELSE SyncQueueWalk(chain, next_id,
                     PutKey(queued, current_id,
                            QueuedRequest(current_id,
                                IF request_type_u8 = 0 THEN "PlaceOrder" ELSE "RemoveOrder",
                                IF order_type_u8 = 1 THEN "Market" ELSE "Limit",
                                request_data.is_ask, request_data.price,
                                request_data.amount,
                                IF request_type_u8 = 1 THEN request_data.price ELSE EMPTY,
                                next_id)))

\* sync_sequencer_state over the queue the contract holds
SyncSequencerQueue ==
    /\ sync_pc = "cold"
    /\ LET head_request_id == IF chain_requests = <<>> THEN EMPTY ELSE 1 IN
       /\ queue_head' = head_request_id
       /\ queued_requests' = SyncQueueWalk(chain_requests, head_request_id, queued_requests)
    /\ nextId' = Len(chain_requests) + 1
    /\ sync_pc' = "warm"
    /\ UNCHANGED <<book, last, engine_pc, requests, match_result>>
    /\ UNCHANGED rvars
    /\ UNCHANGED pvars
    /\ UNCHANGED bvars

NextQueueWalk ==
    \/ ChainQueueRequest
    \/ SyncSequencerQueue

SpecQueueWalk == Init /\ [][NextQueueWalk]_vars


\* ------------------------------------------- the bound of the matching loop
\* simulate_insert_order, steps 1 to 3: the order is in its level and
\* try_match_after_insertion has not run
place_limit_order(b, order_id, price, amount, is_ask) ==
    LET insert_after_price == find_insert_position(b, price, is_ask)
        b1 == find_or_create_price_level(b, price, is_ask, insert_after_price)
        b2 == [b1 EXCEPT !.orders = PutKey(@, order_id, SimOrder(order_id, amount, FALSE, price)),
                         !.g_side = PutKey(@, order_id, is_ask)]
    IN insert_order_into_price_level(b2, price, order_id, EMPTY, is_ask)

\* simulate_insert_market_order before try_match_after_insertion
place_market_order(b, order_id, amount, is_ask) ==
    LET b1 == [b EXCEPT !.orders = PutKey(@, order_id, SimOrder(order_id, amount, TRUE, EMPTY)),
                        !.g_side = PutKey(@, order_id, is_ask)]
    IN insert_market_order_at_tail(b1, order_id, is_ask)

\* The iterations of match_orders_internal that trade: an iteration that
\* trades changes the book, one that breaks leaves it
RECURSIVE LimitIterations(_, _)
LimitIterations(b, max_iterations) ==
    IF max_iterations = 0 THEN 0
    ELSE CHOOSE n \in {IF b1 = b THEN 0 ELSE 1 + LimitIterations(b1, max_iterations - 1) :
                           b1 \in {match_orders_internal(b, 1)}} : TRUE

\* The iterations of the two loops of match_market_orders_internal that
\* trade, counted likewise: the second loop never gives the first a trade
\* it did not have
RECURSIVE MarketIterations(_, _)
MarketIterations(b, max_iterations) ==
    IF max_iterations = 0 THEN 0
    ELSE CHOOSE n \in {IF b1 = b THEN 0 ELSE 1 + MarketIterations(b1, max_iterations - 1) :
                           b1 \in {match_market_orders_internal(b, 1)}} : TRUE

\* simulate_insert_order whose try_match_after_insertion has max_iterations
\* scaled from 50 to IterationCap
InsertLimitScaled ==
    /\ nextId <= MaxOrders
    /\ \E price \in Prices, amount \in Amounts \ {0}, is_ask \in BOOLEAN :
          \E placed \in {place_limit_order(book, nextId, price, amount, is_ask)} :
          \E limit_matched \in {match_orders_internal(placed, IterationCap)} :
              /\ book' = match_market_orders_internal(limit_matched, IterationCap)
              /\ match_iterations' = LimitIterations(placed, IterationCap)
                                       + MarketIterations(limit_matched, IterationCap)
    /\ nextId' = nextId + 1
    /\ UNCHANGED <<last, chain_requests, tvars, xvars>>
    /\ UNCHANGED dvars
    /\ UNCHANGED rvars
    /\ UNCHANGED pvars
    /\ UNCHANGED <<chain_block, current_block, synced_block, sequencer_events>>

\* simulate_insert_market_order with max_iterations scaled likewise
InsertMarketScaled ==
    /\ nextId <= MaxOrders
    /\ \E amount \in Amounts \ {0}, is_ask \in BOOLEAN :
          \E placed \in {place_market_order(book, nextId, amount, is_ask)} :
          \E limit_matched \in {match_orders_internal(placed, IterationCap)} :
              /\ book' = match_market_orders_internal(limit_matched, IterationCap)
              /\ match_iterations' = LimitIterations(placed, IterationCap)
                                       + MarketIterations(limit_matched, IterationCap)
    /\ nextId' = nextId + 1
    /\ UNCHANGED <<last, chain_requests, tvars, xvars>>
    /\ UNCHANGED dvars
    /\ UNCHANGED rvars
    /\ UNCHANGED pvars
    /\ UNCHANGED <<chain_block, current_block, synced_block, sequencer_events>>

NextIterations == InsertLimitScaled \/ InsertMarketScaled

SpecIterations == Init /\ [][NextIterations]_vars


\* ------------------------------------------------------ shapes of the lists
StrictlyAscending(q) == \A i \in 1..(Len(q) - 1) : q[i] < q[i + 1]
StrictlyDescending(q) == \A i \in 1..(Len(q) - 1) : q[i] > q[i + 1]

SideOrdered(b, is_ask) ==
    IF is_ask THEN StrictlyAscending(get_price_levels(b, TRUE))
    ELSE StrictlyDescending(get_price_levels(b, FALSE))

\* Every non-zero next_price / prev_price names a level of the same side
\* that points back.
LevelLinks(b) ==
    \A k \in DOMAIN b.price_levels :
        LET L == b.price_levels[k]
            s == KeyIsAsk(k)
        IN /\ L.next_price # EMPTY =>
                 /\ get_price_level_key(L.next_price, s) \in DOMAIN b.price_levels
                 /\ b.price_levels[get_price_level_key(L.next_price, s)].prev_price = L.price
           /\ L.prev_price # EMPTY =>
                 /\ get_price_level_key(L.prev_price, s) \in DOMAIN b.price_levels
                 /\ b.price_levels[get_price_level_key(L.prev_price, s)].next_price = L.price

\* Every non-zero next_order_id / prev_order_id names an order that points back.
OrderLinks(b) ==
    \A id \in DOMAIN b.orders :
        LET o == b.orders[id] IN
        /\ o.next_order_id # EMPTY =>
              /\ o.next_order_id \in DOMAIN b.orders
              /\ b.orders[o.next_order_id].prev_order_id = id
        /\ o.prev_order_id # EMPTY =>
              /\ o.prev_order_id \in DOMAIN b.orders
              /\ b.orders[o.prev_order_id].next_order_id = id

\* Each side's head and tail are the two ends of one list holding exactly
\* the side's levels.
SideEnds(b) ==
    \A s \in BOOLEAN :
        LET fw == get_price_levels(b, s)
            bw == PriceLevelsBackward(b, s)
        IN /\ fw = Reverse(bw)
           /\ {get_price_level_key(fw[i], s) : i \in 1..Len(fw)}
                 = {k \in DOMAIN b.price_levels : KeyIsAsk(k) = s}

\* Each level's head_order_id and tail_order_id are the two ends of one list
\* of orders of the table.
LevelEnds(b) ==
    \A k \in DOMAIN b.price_levels :
        LET fw == OrdersFrom(b, b.price_levels[k].head_order_id)
            bw == OrdersBackFrom(b, b.price_levels[k].tail_order_id)
        IN /\ fw = Reverse(bw)
           /\ Range(fw) \subseteq DOMAIN b.orders

Remaining(b, id) == b.orders[id].amount - b.orders[id].filled_amount

\* The sum of amount - filled_amount over the orders linked in the level
LinkedVolume(b, key) ==
    LET q == OrdersFrom(b, b.price_levels[key].head_order_id) IN
    SeqSum([i \in 1..Len(q) |->
               IF q[i] \in DOMAIN b.orders THEN Remaining(b, q[i]) ELSE 0])

\* One side of the limit book is empty or bid_head.price < ask_head.price.
Uncrossed(b) == b.bid_head = EMPTY \/ b.ask_head = EMPTY \/ b.bid_head < b.ask_head

\* ------------------------------------- Dispatcher and Reconciler interleaved
\* The two tasks run on the threads of one runtime and share the mirror
\* through a DashMap and a lock around queue_head, each call of GlobalState
\* taking and releasing its own lock: the calls of the PlaceOrderRequested
\* handler and of step 6 of execute_batch are the steps that interleave.

\* watch_sequencer_events, PlaceOrderRequested: state.add_request
AddRequest ==
    /\ sync_pc = "warm"
    /\ added_request = EMPTY
    /\ nextId <= MaxOrders
    /\ \E x \in PlaceOrderPayloads :
          queued_requests' =
              PutKey(queued_requests, nextId,
                     QueuedRequest(nextId, "PlaceOrder", x.order_type, x.is_ask, x.price,
                                   x.amount, EMPTY, EMPTY))
    /\ added_request' = nextId
    /\ g_late' = IF engine_pc = "tick" THEN g_late ELSE g_late \cup {nextId}
    /\ nextId' = nextId + 1
    /\ UNCHANGED <<book, last, queue_head, sync_pc, engine_pc, requests, match_result>>
    /\ UNCHANGED first_remaining
    /\ UNCHANGED rvars
    /\ UNCHANGED pvars
    /\ UNCHANGED <<chain_block, current_block, synced_block, sequencer_events,
                   chain_requests, match_iterations, tvars, process>>

\* watch_sequencer_events, PlaceOrderRequested: state.update_queue_head
UpdateQueueHead ==
    /\ added_request # EMPTY
    /\ queue_head' = added_request
    /\ added_request' = EMPTY
    /\ UNCHANGED <<book, nextId, last, queued_requests, sync_pc, engine_pc, requests,
                   match_result>>
    /\ UNCHANGED <<first_remaining, g_late>>
    /\ UNCHANGED rvars
    /\ UNCHANGED pvars
    /\ UNCHANGED <<chain_block, current_block, synced_block, sequencer_events,
                   chain_requests, match_iterations, tvars, process>>

\* execute_batch with a receipt of status 1, up to the loop of step 6: the
\* contract has processed the batch, and remove_request has been called for
\* every request of the batch
ExecuteBatchRemoveRequests ==
    /\ engine_pc = "calculated"
    /\ match_result.order_ids # <<>>
    /\ tx_count < MaxTx
    /\ tx_count' = tx_count + 1
    /\ simulator' = [RecordBatch(simulator, queued_requests, match_result.order_ids,
                                 tx_count + 1)
                        EXCEPT !.g_succeeded = @ \cup {tx_count + 1}]
    /\ \E books \in {ChainBatchBooks(book, queued_requests, match_result.order_ids)} :
          /\ book' = books[Len(books)]
          /\ events' = events \o ChainBatchEvents(books, queued_requests,
                                                  match_result.order_ids, chain_block + 1)
    /\ chain_block' = chain_block + 1
    /\ queued_requests' = remove_requests(queued_requests, match_result.order_ids)
    /\ engine_pc' = "removed"
    /\ UNCHANGED <<nextId, last, queue_head, sync_pc, requests, match_result, replica,
                   current_block, synced_block, sequencer_events>>
    /\ UNCHANGED cvars

\* execute_batch, step 6: self.state.get_head_requests(1).first()
ExecuteBatchGetHead ==
    /\ engine_pc = "removed"
    /\ LET head_requests == get_head_requests(queued_requests, queue_head, 1) IN
       first_remaining' = IF head_requests # <<>> THEN head_requests[1].request_id
                          ELSE EMPTY
    /\ engine_pc' = "head_read"
    /\ UNCHANGED <<book, nextId, last, queued_requests, queue_head, sync_pc, requests,
                   match_result>>
    /\ UNCHANGED <<added_request, g_late>>
    /\ UNCHANGED rvars
    /\ UNCHANGED pvars
    /\ UNCHANGED <<chain_block, current_block, synced_block, sequencer_events,
                   chain_requests, match_iterations, tvars, process>>

\* execute_batch, step 6: self.state.update_queue_head, and the return to run
ExecuteBatchUpdateHead ==
    /\ engine_pc = "head_read"
    /\ queue_head' = first_remaining
    /\ first_remaining' = EMPTY
    /\ engine_pc' = "tick"
    /\ requests' = <<>>
    /\ match_result' = NewMatchResult
    /\ UNCHANGED <<book, nextId, last, queued_requests, sync_pc>>
    /\ UNCHANGED <<added_request, g_late>>
    /\ UNCHANGED rvars
    /\ UNCHANGED pvars
    /\ UNCHANGED <<chain_block, current_block, synced_block, sequencer_events,
                   chain_requests, match_iterations, tvars, process>>

NextInterleaved ==
    \/ SyncSequencerState
    \/ AddRequest
    \/ UpdateQueueHead
    \/ GetHeadRequests
    \/ CalculateInsertPositions
    \/ NoValidOrders
    \/ ExecuteBatchRemoveRequests
    \/ ExecuteBatchGetHead
    \/ ExecuteBatchUpdateHead
    \/ ExecuteBatchFailed
    \/ ExecuteBatchSendFailed

SpecInterleaved == Init /\ [][NextInterleaved]_vars

\* ------------------------------------------------- the Dispatcher's progress
\* The mirror as the cold sync built it and a Dispatcher whose every batch
\* is confirmed.  The ticker of run fires forever and each await of
\* process_batch returns, so no step of the Dispatcher that stays possible
\* is put off forever.
NextProgress ==
    \/ SyncSequencerState
    \/ GetHeadRequests
    \/ CalculateInsertPositions
    \/ NoValidOrders
    \/ ExecuteBatchConfirmed

ProgressFairness ==
    /\ WF_vars(SyncSequencerState)
    /\ WF_vars(GetHeadRequests)
    /\ WF_vars(CalculateInsertPositions)
    /\ WF_vars(NoValidOrders)
    /\ WF_vars(ExecuteBatchConfirmed)

SpecProgress == Init /\ [][NextProgress]_vars /\ ProgressFairness

\* ------------------------------------------------------------------- main
\* main up to select!: the configuration is read, StateSynchronizer::new and
\* MatchingEngine::new_with_simulator succeed and the two tasks are spawned
MainSpawnsTasks ==
    /\ process.main_pc = "startup"
    /\ process' = [process EXCEPT !.main_pc = "select", !.sync_handle = "running",
                                  !.match_handle = "running"]
    /\ UNCHANGED <<book, nextId, last>>
    /\ UNCHANGED dvars
    /\ UNCHANGED rvars
    /\ UNCHANGED pvars
    /\ UNCHANGED <<chain_block, current_block, synced_block, sequencer_events,
                   chain_requests, match_iterations, tvars, ivars>>

\* main whose `?` on Config::from_file, StateSynchronizer::new or
\* MatchingEngine::new_with_simulator returns the error: the runtime turns
\* the Err of main into exit code 1
MainStartupFails ==
    /\ process.main_pc = "startup"
    /\ process' = [process EXCEPT !.main_pc = "exited", !.exit_code = 1]
    /\ UNCHANGED <<book, nextId, last>>
    /\ UNCHANGED dvars
    /\ UNCHANGED rvars
    /\ UNCHANGED pvars
    /\ UNCHANGED <<chain_block, current_block, synced_block, sequencer_events,
                   chain_requests, match_iterations, tvars, ivars>>

\* The task of the Reconciler ends: synchronizer.run returns the error of a
\* call to the node, which the task logs
SynchronizerFails ==
    /\ process.main_pc = "select"
    /\ process.sync_handle = "running"
    /\ process' = [process EXCEPT !.sync_handle = "error"]
    /\ UNCHANGED <<book, nextId, last>>
    /\ UNCHANGED dvars
    /\ UNCHANGED rvars
    /\ UNCHANGED pvars
    /\ UNCHANGED <<chain_block, current_block, synced_block, sequencer_events,
                   chain_requests, match_iterations, tvars, ivars>>

\* The task of the Dispatcher ends: run has no return of its own, the task
\* ends by a panic and its handle resolves to the JoinError
MatcherFails ==
    /\ process.main_pc = "select"
    /\ process.match_handle = "running"
    /\ process' = [process EXCEPT !.match_handle = "error"]
    /\ UNCHANGED <<book, nextId, last>>
    /\ UNCHANGED dvars
    /\ UNCHANGED rvars
    /\ UNCHANGED pvars
    /\ UNCHANGED <<chain_block, current_block, synced_block, sequencer_events,
                   chain_requests, match_iterations, tvars, ivars>>

\* The termination signal arrives
CtrlC ==
    /\ process.main_pc = "select"
    /\ ~process.ctrl_c
    /\ process' = [process EXCEPT !.ctrl_c = TRUE]
    /\ UNCHANGED <<book, nextId, last>>
    /\ UNCHANGED dvars
    /\ UNCHANGED rvars
    /\ UNCHANGED pvars
    /\ UNCHANGED <<chain_block, current_block, synced_block, sequencer_events,
                   chain_requests, match_iterations, tvars, ivars>>

\* main, select! and the end: whichever branch is ready, main logs and
\* returns Ok(()), which the runtime turns into exit code 0
MainSelect ==
    /\ process.main_pc = "select"
    /\ \/ process.sync_handle = "error"
       \/ process.match_handle = "error"
       \/ process.ctrl_c
    /\ process' = [process EXCEPT !.main_pc = "exited", !.exit_code = 0]
    /\ UNCHANGED <<book, nextId, last>>
    /\ UNCHANGED dvars
    /\ UNCHANGED rvars
    /\ UNCHANGED pvars
    /\ UNCHANGED <<chain_block, current_block, synced_block, sequencer_events,
                   chain_requests, match_iterations, tvars, ivars>>

\* A step of the Reconciler's task while it runs: the walk of the queue
SynchronizerRuns ==
    /\ process.main_pc = "select"
    /\ process.sync_handle = "running"
    /\ SyncSequencerQueue

\* A step of the Dispatcher's task while it runs: the snapshot of a tick
MatcherRuns ==
    /\ process.main_pc = "select"
    /\ process.match_handle = "running"
    /\ GetHeadRequests

\* The process: the chain fills the queue, main spawns the two tasks and
\* races their handles against the termination signal.
NextMain ==
    \/ ChainQueueRequest
    \/ MainSpawnsTasks
    \/ MainStartupFails
    \/ SynchronizerRuns
    \/ MatcherRuns
    \/ SynchronizerFails
    \/ MatcherFails
    \/ CtrlC
    \/ MainSelect

SpecMain == Init /\ [][NextMain]_vars

\* ---------------------------------------------------------------------- C1
\* C1: after any sequence of simulate_insert_order and simulate_remove_order
\* calls from an empty book, the walk from ask_head by next_price visits
\* strictly ascending prices and the walk from bid_head strictly descending
\* prices.  (Checked with market orders too.)
C1_SideOrdering == SideOrdered(book, TRUE) /\ SideOrdered(book, FALSE)

\* A third bid level has just been inserted between two others.
C1_Witness ==
    /\ last.op = "insert_limit" /\ ~last.is_ask /\ last.ret # EMPTY
    /\ Len(get_price_levels(book, FALSE)) = 3
    /\ get_price_levels(book, FALSE)[1] = last.ret
    /\ get_price_levels(book, FALSE)[2] = last.price

\* ---------------------------------------------------------------------- C2
\* C2: after any sequence of insert and remove calls every non-zero next
\* pointer of a level or of an order names an existing element whose prev
\* pointer points back (and symmetrically), each side's head/tail and each
\* level's head_order/tail_order name the ends of their list, and the
\* forward walk visits the elements of the backward walk.
C2_ListIntegrity ==
    /\ LevelLinks(book)
    /\ OrderLinks(book)
    /\ SideEnds(book)
    /\ LevelEnds(book)

\* ---------------------------------------------------------------------- C3
\* C3: after any sequence of insert and remove calls every level's
\* total_volume is the sum of amount - filled_amount over the orders linked
\* in it, also after a removal from a level that keeps other orders.
C3_VolumeAccounting ==
    \A k \in DOMAIN book.price_levels :
        book.price_levels[k].total_volume = LinkedVolume(book, k)

\* ---------------------------------------------------------------------- C4
\* C4: after every simulate_insert_order or simulate_insert_market_order one
\* side of the limit book is empty or bid_head.price < ask_head.price,
\* whatever the amount of the order.
C4_MatchingMonotonicity ==
    last.op \in {"insert_limit", "insert_market"} => Uncrossed(book)

\* ---------------------------------------------------------------------- C5
\* The hints of section 4.3, step 2: the requests applied one after another,
\* in queue order, to one scratch copy of the Replica; each yields
\* [request_id, hint], the hint of a removal or of a market order being 0.
RECURSIVE C5_ScratchHints(_, _)
C5_ScratchHints(scratch, reqs) ==
    IF reqs = <<>> THEN <<>>
    ELSE LET r == Head(reqs) IN
         IF r.request_type = "RemoveOrder"
         THEN LET is_ask == IF r.order_id_to_remove \in DOMAIN scratch.g_side
                            THEN scratch.g_side[r.order_id_to_remove] ELSE r.is_ask
                  after == simulate_remove_order(scratch, r.order_id_to_remove, is_ask).b
              IN <<[request_id |-> r.request_id, hint |-> EMPTY]>>
                    \o C5_ScratchHints(after, Tail(reqs))
         ELSE IF r.order_type = "Limit"
         THEN LET x == simulate_insert_order(scratch, r.request_id, r.price, r.amount,
                                             r.is_ask)
              IN <<[request_id |-> r.request_id, hint |-> x.insert_after_price]>>
                    \o C5_ScratchHints(x.b, Tail(reqs))
         ELSE LET after == simulate_insert_market_order(scratch, r.request_id, r.amount,
                                                        r.is_ask)
              IN <<[request_id |-> r.request_id, hint |-> EMPTY]>>
                    \o C5_ScratchHints(after, Tail(reqs))

\* C5: every hint the Dispatcher puts in a batch is the hint its request
\* gets when the snapshot's requests are applied in queue order to one
\* scratch copy of the Replica (here in step with the chain): request k sees
\* the state left by requests 1..k-1.
C5_HintsFromScratch ==
    engine_pc = "calculated" =>
        LET scratch_hints == C5_ScratchHints(book, requests) IN
        \A k \in 1..Len(match_result.order_ids) :
            \E j \in 1..Len(scratch_hints) :
                /\ scratch_hints[j].request_id = match_result.order_ids[k]
                /\ scratch_hints[j].hint = match_result.insert_after_price_levels[k]

\* ---------------------------------------------------------------------- C6
\* The last step was a simulate_insert_order for a (price, is_ask) that had
\* no level.
C6_NewLevelCall ==
    /\ last'.op = "insert_limit"
    /\ nextId' = nextId + 1
    /\ get_price_level_key(last'.price, last'.is_ask) \notin DOMAIN book.price_levels

\* The returned hint is zero or the price of a level the side listed before
\* the call, and it is the insert position of the state before the call.
C6_HintFromPreState ==
    /\ \/ last'.ret = EMPTY
       \/ /\ get_price_level_key(last'.ret, last'.is_ask) \in DOMAIN book.price_levels
          /\ last'.ret \in Range(get_price_levels(book, last'.is_ask))
    /\ last'.ret = find_insert_position(book, last'.price, last'.is_ask)

\* In b the level of the call is linked directly after the hinted level, or
\* is the head when the hint is zero.
C6_PlacedAfterHint(b, price, is_ask, hint) ==
    LET key == get_price_level_key(price, is_ask)
        hint_key == get_price_level_key(hint, is_ask)
    IN /\ key \in DOMAIN b.price_levels
       /\ b.price_levels[key].prev_price = hint
       /\ hint = EMPTY => SideHead(b, is_ask) = price
       /\ hint # EMPTY =>
             /\ hint_key \in DOMAIN b.price_levels
             /\ b.price_levels[hint_key].next_price = price

\* C6 as stated: for a (price, is_ask) with no level, the hint returned by
\* simulate_insert_order is zero or an existing level of the side, computed
\* on the state before the call, and after the call the side is strictly
\* ordered with the new level directly after the hinted level (at the head
\* for a zero hint).
C6_HintCorrectnessAsStated ==
    [][C6_NewLevelCall =>
          /\ C6_HintFromPreState
          /\ SideOrdered(book', last'.is_ask)
          /\ C6_PlacedAfterHint(book', last'.price, last'.is_ask, last'.ret)]_vars

\* C6 as the code has it: the hint is as stated, and the new level is
\* linked directly after the hinted level (at the head for a zero hint) in
\* a strictly ordered side when the call creates it; the matching that
\* ends the call keeps the side strictly ordered, and after the call the
\* new level is in the table exactly when the incoming order still rests.
C6_HintCorrectness ==
    [][C6_NewLevelCall =>
          LET created == find_or_create_price_level(book, last'.price, last'.is_ask,
                                                    last'.ret)
          IN /\ C6_HintFromPreState
             /\ C6_PlacedAfterHint(created, last'.price, last'.is_ask, last'.ret)
             /\ SideOrdered(created, last'.is_ask)
             /\ SideOrdered(book', last'.is_ask)
             /\ nextId \in DOMAIN book'.orders
                   <=> get_price_level_key(last'.price, last'.is_ask)
                          \in DOMAIN book'.price_levels]_vars

\* An ask has just opened a level behind a better ask level and rests there
\* alone.
C6_Witness ==
    /\ last.op = "insert_limit" /\ last.is_ask /\ last.ret # EMPTY
    /\ get_orders_at_price(book, last.price, TRUE) = <<nextId - 1>>
    /\ C6_PlacedAfterHint(book, last.price, TRUE, last.ret)

\* ---------------------------------------------------------------------- C7
\* C7: over any history of insert and remove calls the amount filled on
\* orders created as bids equals the amount filled on orders created as
\* asks, removed orders included.
C7_FillConservation == book.g_excess = 0

\* ---------------------------------------------------------------------- C8
\* C8: a level is in the table exactly when it holds an order: every level
\* of the table has head_order_id # 0 naming an order and total_volume > 0,
\* and every resting limit order's level is in the table.
C8_EmptyLevelDestruction ==
    /\ \A k \in DOMAIN book.price_levels :
          /\ book.price_levels[k].head_order_id # EMPTY
          /\ book.price_levels[k].head_order_id \in DOMAIN book.orders
          /\ book.price_levels[k].total_volume > 0
    /\ \A id \in DOMAIN book.orders :
          ~book.orders[id].is_market_order =>
              get_price_level_key(book.orders[id].price_level, book.g_side[id])
                  \in DOMAIN book.price_levels

\* C9 (replay equivalence): once the Reconciler has applied, in chain
\* order, every OrderBook event emitted so far to a Replica that started
\* empty, the Replica (levels, orders, pointers, volumes, side heads and
\* tails) equals the cold sync of the contract's book after those events.
C9_ReplayEquivalence ==
    events = <<>> => replica = sync_trading_pair_orderbook(book)

\* --------------------------------------------------------------------- C10
\* C10: the batch holds one entry per request of the snapshot, in queue
\* order, in three arrays of equal length: (request_id, hint, 0) for a
\* PlaceOrder/Limit request and (request_id, 0, 0) for a RemoveOrder or a
\* PlaceOrder/Market request.
C10_OneEntryPerRequest ==
    engine_pc = "calculated" =>
        /\ Len(match_result.order_ids) = Len(requests)
        /\ Len(match_result.insert_after_price_levels) = Len(requests)
        /\ Len(match_result.insert_after_orders) = Len(requests)
        /\ \A k \in 1..Len(requests) :
              /\ match_result.order_ids[k] = requests[k].request_id
              /\ match_result.insert_after_orders[k] = EMPTY
              /\ (requests[k].request_type = "RemoveOrder"
                    \/ requests[k].order_type = "Market")
                    => match_result.insert_after_price_levels[k] = EMPTY

\* --------------------------------------------------------------------- C11
\* The pending entries keyed by tx_hash
PendingOf(sim, tx_hash) ==
    {i \in 1..Len(sim.pending_changes) : sim.pending_changes[i].tx_hash = tx_hash}

\* A step of execute_batch whose transaction tx_count' got no receipt of
\* status 1
BatchFailedStep ==
    /\ tx_count' = tx_count + 1
    /\ tx_count' \notin simulator'.g_succeeded

\* C11: when the receipt of a batch transaction reports failure, the
\* transaction is dropped or waiting for it errors, no pending entry keyed
\* by its hash remains after the rollback, however many requests of the
\* batch had a predicted match, and the order books of the Replica and of
\* the MatchSimulator are unchanged.
C11_RollbackDiscardsBatch ==
    [][BatchFailedStep =>
          /\ PendingOf(simulator', tx_count') = {}
          /\ replica' = replica
          /\ simulator'.local_orderbook = simulator.local_orderbook]_vars

\* --------------------------------------------------------------------- C12
\* A step that ends execute_batch on a non-empty batch, whatever its outcome
BatchFinishedStep ==
    /\ engine_pc = "calculated"
    /\ match_result.order_ids # <<>>
    /\ engine_pc' = "tick"

\* C12: once the Dispatcher has submitted a batch, the requests of that
\* batch are gone from the SequencerMirror when execute_batch ends, whatever
\* the outcome: receipt success, receipt failure, dropped transaction, error
\* while sending or awaiting.
C12_CleanupWhateverOutcome ==
    [][BatchFinishedStep =>
          \A id \in Range(match_result.order_ids) : id \notin DOMAIN queued_requests']_vars

\* --------------------------------------------------------------------- C13
\* The ids get_head_requests can reach from head
ReachableIds(queued, head) ==
    {r.request_id :
        r \in Range(get_head_requests(queued, head, Cardinality(DOMAIN queued)))}

\* Every request of the mirror is on the walk from head
AllReachable(queued, head) == ReachableIds(queued, head) = DOMAIN queued

\* C13: when the Dispatcher finishes a batch on a mirror whose requests
\* were all reachable from head, head is zero only if no request remains,
\* head is a request still present otherwise, and every request still
\* present is reachable from head.
C13_HeadAfterBatch ==
    [][(BatchFinishedStep /\ AllReachable(queued_requests, queue_head)) =>
          /\ (queue_head' = EMPTY) <=> (DOMAIN queued_requests' = {})
          /\ queue_head' # EMPTY => queue_head' \in DOMAIN queued_requests'
          /\ AllReachable(queued_requests', queue_head')]_vars

\* --------------------------------------------------------------------- C14
\* A step of watch_sequencer_events that applies a PlaceOrderRequested or a
\* RemoveOrderRequested event, of request nextId
SequencerEventStep ==
    /\ sync_pc = "warm"
    /\ nextId' = nextId + 1
    /\ DOMAIN queued_requests' = DOMAIN queued_requests \cup {nextId}

\* The ids of the walk of get_head_requests over the whole mirror
WalkIds(queued, head) ==
    LET walk == get_head_requests(queued, head, Cardinality(DOMAIN queued))
    IN [i \in 1..Len(walk) |-> walk[i].request_id]

\* C14: a PlaceOrderRequested or RemoveOrderRequested event appends its
\* request to the queue of the SequencerMirror: applied to a mirror whose
\* requests are all on the walk from head, it leaves the head of a
\* non-empty queue where it is, makes the request the head of an empty
\* queue, and get_head_requests then returns the former walk followed by
\* the request, so requests come in arrival order.
C14_EventsAppend ==
    [][(SequencerEventStep /\ AllReachable(queued_requests, queue_head)) =>
          /\ queue_head # EMPTY => queue_head' = queue_head
          /\ queue_head = EMPTY => queue_head' = nextId
          /\ WalkIds(queued_requests', queue_head')
                = Append(WalkIds(queued_requests, queue_head), nextId)]_vars

\* --------------------------------------------------------------------- C15
\* C15: in every outcome of a batch (receipt success, failure, drop, error)
\* the step that ends execute_batch leaves the order book of the Replica
\* and the local order book of the MatchSimulator as they were; of the
\* MatchSimulator it changes the pending set only, so the effects of a
\* successful batch reach the Replica through the event handlers alone.
C15_DispatcherFrame ==
    [][BatchFinishedStep =>
          /\ replica' = replica
          /\ simulator'.local_orderbook = simulator.local_orderbook]_vars

\* A successful batch with a predicted match has recorded its pending entry
\* and the resting order it matched is still unfilled in the local book.
C15_Witness ==
    /\ \E i \in 1..Len(simulator.pending_changes) :
          simulator.pending_changes[i].tx_hash \in simulator.g_succeeded
    /\ \E o \in Range(simulator.local_orderbook.bids) : o.filled_amount = EMPTY
    /\ engine_pc = "tick"

\* --------------------------------------------------------------------- C16
\* C16: the Reconciler applies the OrderBook events in the order the chain
\* emitted them, also across event types: the event a handler applies is
\* always the oldest event not yet applied.
C16_ChainOrderApplication ==
    [][Len(events') < Len(events) => events' = Tail(events)]_vars

\* --------------------------------------------------------------------- C17
\* The composite key of the level the last insert_limit call named
C17_Key == get_price_level_key(last'.price, last'.is_ask)

\* A simulate_insert_order step of order nextId into a level that holds
\* orders, after which every order of the level and the new one still rest
C17_InsertIntoHeldLevel ==
    /\ last'.op = "insert_limit"
    /\ nextId' = nextId + 1
    /\ C17_Key \in DOMAIN book.price_levels
    /\ book.price_levels[C17_Key].head_order_id # EMPTY
    /\ C17_Key \in DOMAIN book'.price_levels
    /\ DOMAIN book'.orders = DOMAIN book.orders \cup {nextId}

\* C17: a limit order inserted into a level that already holds orders is
\* appended at the tail of the level's order list: its prev is the old
\* tail, it is the new tail, and the level's head order is unchanged, so
\* the orders of a level are matched in the order they were inserted.
C17_AppendAtTail ==
    [][C17_InsertIntoHeldLevel =>
          /\ book'.orders[nextId].prev_order_id = book.price_levels[C17_Key].tail_order_id
          /\ book'.price_levels[C17_Key].tail_order_id = nextId
          /\ book'.price_levels[C17_Key].head_order_id
                = book.price_levels[C17_Key].head_order_id]_vars

\* --------------------------------------------------------------------- C18
\* The target of event e does not exist in Replica r: the level of an
\* OrderInserted, the order of an OrderFilled or OrderRemoved, the level of
\* a PriceLevelRemoved on either side
TargetMissing(r, e) ==
    \/ /\ e.kind = "OrderInserted"
       /\ get_price_level_key(e.price, e.is_ask) \notin DOMAIN r.price_levels
    \/ /\ e.kind \in {"OrderFilled", "OrderRemoved"}
       /\ e.order_id \notin DOMAIN r.orders
    \/ /\ e.kind = "PriceLevelRemoved"
       /\ get_price_level_key(e.price, TRUE) \notin DOMAIN r.price_levels
       /\ get_price_level_key(e.price, FALSE) \notin DOMAIN r.price_levels

\* C18: a handler applied to an event whose target does not exist leaves
\* the Replica unchanged: no order, no level and no head or tail pointer is
\* modified.
C18_MissingTargetSkipped ==
    [][(events # <<>> /\ events' = Tail(events) /\ TargetMissing(replica, Head(events)))
          => replica' = replica]_vars

OrderBookEventStep ==
    /\ sync_pc = "warm"
    /\ events # <<>>
    /\ events' = Tail(events)

\* A step of the warm phase that applies the oldest Sequencer event
SequencerLogStep ==
    /\ sync_pc = "warm"
    /\ sequencer_events # <<>>
    /\ sequencer_events' = Tail(sequencer_events)

\* C20: the warm phase applies no event of a block numbered synced_block or
\* lower, on the OrderBook subscription and on the Sequencer subscription:
\* both start at synced_block + 1, the block after the height the cold sync
\* recorded.
C20_WarmFromNextBlock ==
    [][/\ OrderBookEventStep => Head(events).block >= synced_block + 1
       /\ SequencerLogStep => Head(sequencer_events).block >= synced_block + 1]_vars

\* The warm phase has started at a height above the first block, events of
\* the synced blocks were left out and the event next in line, of either
\* subscription, is of block synced_block + 1.
C20_Witness ==
    /\ sync_pc = "warm"
    /\ synced_block >= 1
    /\ events # <<>>
    /\ Head(events).block = synced_block + 1
    /\ sequencer_events # <<>>
    /\ Head(sequencer_events).block > synced_block
    /\ DOMAIN queued_requests # {}

\* --------------------------------------------------------------------- C21
\* The first position of the contract's queue whose request kind or whose
\* order type is not a known tag, or one past the queue
C21_FirstUnknown(chain) ==
    LET unknown == {i \in 1..Len(chain) : \/ chain[i].request_type \notin {0, 1}
                                          \/ chain[i].order_type \notin {0, 1}}
    IN IF unknown = {} THEN Len(chain) + 1
       ELSE CHOOSE i \in unknown : \A j \in unknown : i <= j

\* C21: the cold walk of the queue stops at the first request whose request
\* kind or order type is not a known tag: the mirror holds the requests
\* before it and neither that request nor a later one, so no default kind
\* or order type stands in for an unknown tag.
C21_UnknownTagStopsWalk ==
    [][(sync_pc = "cold" /\ sync_pc' = "warm")
          => DOMAIN queued_requests' = 1..(C21_FirstUnknown(chain_requests) - 1)]_vars

\* --------------------------------------------------------------------- C22
\* C22: one insertion executes at most max_iterations trades in all, the
\* limit-against-limit loop and the two market loops counted together
\* (max_iterations is 50 in the code and IterationCap in SpecIterations).
C22_IterationsInTotal == match_iterations <= IterationCap

\* --------------------------------------------------------------------- C23
\* The limit orders of the side opposite to is_ask that a limit order of
\* this price crosses
C23_Crossed(b, price, is_ask) ==
    {id \in DOMAIN b.orders :
        /\ ~b.orders[id].is_market_order
        /\ b.g_side[id] = ~is_ask
        /\ IF is_ask THEN b.orders[id].price_level >= price
           ELSE b.orders[id].price_level <= price}

\* The remaining amount of those orders together
C23_Available(b, price, is_ask) ==
    SeqSum([id \in 1..(MaxOrders + 1) |->
               IF id \in C23_Crossed(b, price, is_ask) THEN Remaining(b, id) ELSE 0])

\* The order has been filled further, or is gone, between b and b2
C23_Touched(b, b2, id) ==
    \/ id \notin DOMAIN b2.orders
    \/ b2.orders[id].filled_amount > b.orders[id].filled_amount

\* What the claim says of insert_limit_order(order_id, price, amount,
\* is_ask) that leads from b to b2
C23_Filled(b, b2, order_id, price, amount, is_ask) ==
    LET available == C23_Available(b, price, is_ask)
        expected == Min(amount, available)
        key == get_price_level_key(price, is_ask)
    IN /\ IF order_id \in DOMAIN b2.orders
          THEN b2.orders[order_id].filled_amount = expected
          ELSE amount = expected
       /\ C23_Available(b2, price, is_ask) = available - expected
       /\ \A x, y \in C23_Crossed(b, price, is_ask) :
             (/\ IF is_ask THEN b.orders[x].price_level > b.orders[y].price_level
                 ELSE b.orders[x].price_level < b.orders[y].price_level
              /\ C23_Touched(b, b2, y))
                => x \notin DOMAIN b2.orders
       /\ expected = amount =>
             /\ order_id \notin DOMAIN b2.orders
             /\ key \notin DOMAIN b.price_levels => key \notin DOMAIN b2.price_levels

\* C23: insert_limit_order of an order that crosses the opposite side fills
\* it by min(its amount, the remaining amount of the opposite limit orders
\* at crossing prices), best price first; the opposite orders keep the
\* rest, and a fully filled incoming order leaves neither its record nor a
\* level of its own.
C23_CrossingFill ==
    [][\A amount \in Amounts \ {0} :
          (/\ last'.op = "insert_limit"
           /\ nextId' = nextId + 1
           /\ C23_Available(book, last'.price, last'.is_ask) > 0
           /\ book' = simulate_insert_order(book, nextId, last'.price, amount,
                                            last'.is_ask).b)
            => C23_Filled(book, book', nextId, last'.price, amount, last'.is_ask)]_vars

\* The remaining amount of the market orders resting on the side opposite
\* to is_ask
C23_MarketAvailable(b, is_ask) ==
    SeqSum([id \in 1..(MaxOrders + 1) |->
               IF /\ id \in DOMAIN b.orders
                  /\ b.orders[id].is_market_order
                  /\ b.g_side[id] = ~is_ask
               THEN Remaining(b, id) ELSE 0])

\* The statement with the market phase of the matching taken into account
C23_FilledAlsoByMarket(b, b2, order_id, price, amount, is_ask) ==
    LET available == C23_Available(b, price, is_ask)
        expected == Min(amount, available)
        filled == IF order_id \in DOMAIN b2.orders
                  THEN b2.orders[order_id].filled_amount ELSE amount
        key == get_price_level_key(price, is_ask)
    IN /\ filled >= expected
       /\ filled <= expected + C23_MarketAvailable(b, is_ask)
       /\ C23_Available(b2, price, is_ask) = available - expected
       /\ \A x, y \in C23_Crossed(b, price, is_ask) :
             (/\ IF is_ask THEN b.orders[x].price_level > b.orders[y].price_level
                 ELSE b.orders[x].price_level < b.orders[y].price_level
              /\ C23_Touched(b, b2, y))
                => x \notin DOMAIN b2.orders
       /\ expected = amount => order_id \notin DOMAIN b2.orders
       /\ (order_id \notin DOMAIN b2.orders /\ key \notin DOMAIN b.price_levels)
             => key \notin DOMAIN b2.price_levels

\* C23 as the code has it: the crossed limit orders lose min(the incoming
\* amount, their remaining amount) in all, best price first, and keep the
\* rest; the incoming order is filled by that much and by no more than the
\* resting market orders of the opposite side add to it; an incoming order
\* the crossed limit orders cover is gone, and an order that is gone leaves
\* no level of its own.
C23_CrossingFillWithMarket ==
    [][\A amount \in Amounts \ {0} :
          (/\ last'.op = "insert_limit"
           /\ nextId' = nextId + 1
           /\ C23_Available(book, last'.price, last'.is_ask) > 0
           /\ book' = simulate_insert_order(book, nextId, last'.price, amount,
                                            last'.is_ask).b)
            => C23_FilledAlsoByMarket(book, book', nextId, last'.price, amount,
                                      last'.is_ask)]_vars

\* --------------------------------------------------------------------- C24
\* The order ids the book names outside the order table: the orders linked
\* in a level, the heads and tails of the levels, and the two market FIFOs
\* with their heads and tails
C24_Listed(b) ==
    UNION {Range(OrdersFrom(b, b.price_levels[k].head_order_id))
              \cup {b.price_levels[k].head_order_id, b.price_levels[k].tail_order_id} :
           k \in DOMAIN b.price_levels}
      \cup Range(get_market_orders(b, TRUE)) \cup Range(get_market_orders(b, FALSE))
      \cup {b.market_ask_head, b.market_ask_tail, b.market_bid_head, b.market_bid_tail}

\* C24: after every operation each order of the table has filled < amount,
\* and an order an insertion has filled completely is gone from the table,
\* from every level's list and from both market FIFOs.
C24_FilledBelowAmount ==
    [][/\ \A id \in DOMAIN book'.orders :
             book'.orders[id].filled_amount < book'.orders[id].amount
       /\ nextId' = nextId + 1 =>
             \A id \in (DOMAIN book.orders \cup {nextId}) \ DOMAIN book'.orders :
                 id \notin C24_Listed(book')]_vars

\* --------------------------------------------------------------------- C25
\* The orders of the table created on side is_ask, market or limit, that
\* still have an amount to fill
C25_Resting(b, is_ask, is_market) ==
    {id \in DOMAIN b.orders : /\ b.g_side[id] = is_ask
                              /\ b.orders[id].is_market_order = is_market
                              /\ Remaining(b, id) > 0}

\* C25: when insert_limit_order or insert_market_order returns, no market
\* order with an amount left rests on a side while the other side holds a
\* limit order with an amount left.
C25_NoMarketAgainstLimit ==
    [][nextId' = nextId + 1 =>
          \A is_ask \in BOOLEAN :
              \/ C25_Resting(book', is_ask, TRUE) = {}
              \/ C25_Resting(book', ~is_ask, FALSE) = {}]_vars

\* --------------------------------------------------------------------- C26
\* The market orders of the table created on side is_ask
C26_MarketOrders(b, is_ask) ==
    {id \in DOMAIN b.orders : b.orders[id].is_market_order /\ b.g_side[id] = is_ask}

\* q lists exactly the orders of S, the earliest (the smallest id) first
C26_InInsertionOrder(q, S) ==
    /\ Range(q) = S
    /\ \A i \in 1..(Len(q) - 1) : q[i] < q[i + 1]

\* C26: after every insertion each market FIFO lists, from its head, the
\* resting market orders of its side in the order of their insertion, and
\* an insertion fills no market order while an earlier market order of the
\* same side keeps an amount to fill.
C26_MarketFifo ==
    [][nextId' = nextId + 1 =>
          \A is_ask \in BOOLEAN :
              /\ C26_InInsertionOrder(get_market_orders(book', is_ask),
                                      C26_MarketOrders(book', is_ask))
              /\ \A x, y \in C26_MarketOrders(book, is_ask) :
                    (x < y /\ C23_Touched(book, book', y)) => x \notin DOMAIN book'.orders]_vars

\* --------------------------------------------------------------------- C27
\* C27: after the PriceLevelCreated handler the new level is reached from
\* the head of its side by next_price, the side's list is sorted, and the
\* prev_price and next_price of the levels answer each other, wherever in
\* the list the level belongs.
C27_LevelSpliced ==
    [][(/\ OrderBookEventStep
        /\ Head(events).kind = "PriceLevelCreated")
          => /\ Head(events).price
                   \in Range(get_price_levels(replica', Head(events).is_ask))
             /\ SideOrdered(replica', Head(events).is_ask)
             /\ LevelLinks(replica')]_vars

\* --------------------------------------------------------------------- C28
\* The order of the local order book with this id
C28_LocalOrder(sim, id) ==
    LET all == sim.local_orderbook.bids \o sim.local_orderbook.asks
                 \o sim.local_orderbook.market_bids \o sim.local_orderbook.market_asks
    IN all[CHOOSE i \in 1..Len(all) : all[i].id = id]

\* The amount the prediction takes from its i-th counterparty: the whole
\* remaining amount of every counterparty but the last, and what is left
\* of expected_filled_amount from the last
C28_Taken(sim, prediction, i) ==
    LET ids == prediction.matched_order_ids
        left(j) == C28_LocalOrder(sim, ids[j]).amount
                     - C28_LocalOrder(sim, ids[j]).filled_amount
    IN IF i < Len(ids) THEN left(i)
       ELSE prediction.expected_filled_amount
              - SeqSum([j \in 1..(Len(ids) - 1) |-> left(j)])

\* What the claim says of the changes recorded for one prediction
C28_ChangesOf(sim, prediction, changes) ==
    LET ids == prediction.matched_order_ids IN
    /\ \A c \in Range(changes) :
          c.kind = "RemoveOrder" =>
              \E i \in 1..Len(ids) :
                  /\ ids[i] = c.order_id
                  /\ C28_Taken(sim, prediction, i)
                        = C28_LocalOrder(sim, ids[i]).amount
                            - C28_LocalOrder(sim, ids[i]).filled_amount
    /\ \A i \in 1..Len(ids) :
          \E c \in Range(changes) :
              /\ c.kind = "UpdateFilledAmount"
              /\ c.order_id = ids[i]
              /\ c.filled_amount = C28_LocalOrder(sim, ids[i]).filled_amount
                                     + C28_Taken(sim, prediction, i)

\* C28: of the pending entries a batch records, each holds a RemoveOrder
\* change only for a counterparty whose remaining amount the prediction
\* consumes entirely, and for every counterparty of the prediction an
\* UpdateFilledAmount change with that counterparty's own new filled amount.
C28_ChangesPerCounterparty ==
    [][(BatchFinishedStep /\ tx_count' \in simulator'.g_succeeded) =>
          LET matching == SelectSeq(BatchPredictions(simulator, queued_requests,
                                                     match_result.order_ids),
                                    LAMBDA x : x.prediction.will_match)
              recorded == SubSeq(simulator'.pending_changes,
                                 Len(simulator.pending_changes) + 1,
                                 Len(simulator'.pending_changes))
          IN /\ Len(recorded) = Len(matching)
             /\ \A j \in 1..Len(recorded) :
                   C28_ChangesOf(simulator, matching[j].prediction, recorded[j].changes)]_vars

\* --------------------------------------------------------------------- C29
\* A turn of the Dispatcher's loop
TickStep == engine_pc = "tick" /\ now' = now + 1

\* The entries of the pending set older than the timeout at instant
C29_Expired(instant) ==
    {i \in 1..Len(simulator.pending_changes) :
        instant - simulator.pending_changes[i].timestamp > cleanup_timeout}

\* The pending set without the entries at the positions gone
C29_Without(gone) ==
    LET kept == {i \in 1..Len(simulator.pending_changes) : i \notin gone}
        RECURSIVE InOrder(_)
        InOrder(i) == IF i > Len(simulator.pending_changes) THEN <<>>
                      ELSE IF i \in kept
                           THEN <<simulator.pending_changes[i]>> \o InOrder(i + 1)
                           ELSE InOrder(i + 1)
    IN InOrder(1)

\* C29: the sweep runs on every tenth tick of the Dispatcher and on no
\* other, and it removes exactly the pending entries older than the
\* timeout and keeps every younger one.
C29_SweepEveryTenthTick ==
    [][TickStep =>
          simulator'.pending_changes =
              IF now' % CleanupEvery = 0 THEN C29_Without(C29_Expired(now'))
              ELSE simulator.pending_changes]_vars

\* C29, the consequence: while every turn of the loop takes one tick
\* interval, no pending entry is older than the timeout and ten tick
\* intervals.
C29_BoundedAge ==
    \A i \in 1..Len(simulator.pending_changes) :
        now - simulator.pending_changes[i].timestamp <= cleanup_timeout + CleanupEvery

\* C29: the pending sweep runs on every tenth tick of the Dispatcher,
\* removes exactly the pending entries older than the timeout and keeps
\* every younger one; so, while the Dispatcher keeps ticking, no pending
\* entry outlives the timeout by more than ten tick intervals.
C29_PendingSweep == C29_SweepEveryTenthTick /\ []C29_BoundedAge

\* A sweep has removed the entry of one transaction and a younger entry is
\* pending.
C29_Witness ==
    /\ simulator.g_expired # {}
    /\ simulator.pending_changes # <<>>
    /\ cleanup_counter = 0
    /\ now % CleanupEvery = 0

\* --------------------------------------------------------------------- C30
\* A step that confirms the changes recorded under tx_hash
C30_ConfirmStep(tx_hash) ==
    /\ PendingPosition(simulator, tx_hash) # 0
    /\ simulator' = confirm_changes(simulator, tx_hash)
    /\ simulator' # simulator
    /\ tx_count' = tx_count
    /\ engine_pc' = engine_pc

\* The orders with the id on the side of the local order book a change
\* records
C30_Named(sim, change) ==
    {o \in Range(IF change.is_ask THEN sim.local_orderbook.asks
                 ELSE sim.local_orderbook.bids)
           \cup Range(IF change.is_ask THEN sim.local_orderbook.market_asks
                      ELSE sim.local_orderbook.market_bids) :
        o.id = change.order_id}

\* The entry of tx_hash is gone and the entries of the other hashes are as
\* they were
C30_EntryRemoved(tx_hash) ==
    simulator'.pending_changes =
        RemoveAt(simulator.pending_changes, PendingPosition(simulator, tx_hash))

\* The order named by a RemoveOrder change of the entry is absent
C30_RemovedAbsent(tx_hash) ==
    \A change \in Range(simulator.pending_changes[PendingPosition(simulator, tx_hash)].changes) :
        change.kind = "RemoveOrder" => C30_Named(simulator', change) = {}

\* The order named by an UpdateFilledAmount change of the entry has the
\* filled amount the change records
C30_FilledAsRecorded(tx_hash) ==
    \A change \in Range(simulator.pending_changes[PendingPosition(simulator, tx_hash)].changes) :
        change.kind = "UpdateFilledAmount" =>
            \A o \in C30_Named(simulator', change) : o.filled_amount = change.filled_amount

\* C30: confirm_changes(tx_hash) removes the pending entry of tx_hash and
\* leaves the entries of other hashes untouched, and applies each change of
\* the entry to the local order book: the order an UpdateFilledAmount change
\* names, on the side the change records, has the recorded filled amount,
\* and the order a RemoveOrder change names is absent.
C30_ConfirmAppliesChanges ==
    [][\A tx_hash \in 1..MaxTx :
          C30_ConfirmStep(tx_hash) =>
              /\ C30_EntryRemoved(tx_hash)
              /\ C30_RemovedAbsent(tx_hash)
              /\ C30_FilledAsRecorded(tx_hash)]_vars

\* C30, the pending set alone: the entry of tx_hash goes and the entries
\* of the other hashes stay.
C30_ConfirmRemovesEntry ==
    [][\A tx_hash \in 1..MaxTx :
          C30_ConfirmStep(tx_hash) => C30_EntryRemoved(tx_hash)]_vars

\* --------------------------------------------------------------------- C31
\* The unfilled amount of the orders of q
C31_Unfilled(q) == SeqSum([i \in 1..Len(q) |-> q[i].amount - q[i].filled_amount])

\* The resting limit orders opposite to the call of last whose price crosses
C31_CrossingLimit ==
    IF last.is_ask
    THEN SelectSeq(simulator.local_orderbook.bids, LAMBDA o : o.price >= last.price)
    ELSE SelectSeq(simulator.local_orderbook.asks, LAMBDA o : o.price <= last.price)

\* The resting market orders opposite to the call of last
C31_OppositeMarket ==
    IF last.is_ask THEN simulator.local_orderbook.market_bids
    ELSE simulator.local_orderbook.market_asks

\* The prediction of last is the one for the amount available
C31_PredictionFor(available) ==
    /\ last.ret.expected_filled_amount = Min(last.amount, available)
    /\ last.ret.will_match <=> last.ret.expected_filled_amount # 0
    /\ last.ret.will_fully_fill <=> last.ret.expected_filled_amount = last.amount

\* C31 as stated: predict_limit_order_match returns expected_filled_amount =
\* min(amount, unfilled amount of the resting opposite limit orders whose
\* price crosses), will_match exactly when that is not zero and
\* will_fully_fill exactly when it equals amount; with no crossing limit
\* order will_match is false and expected_filled_amount is zero.
C31_PredictionOverLimitOrders ==
    last.op = "predict_limit_order_match" =>
        C31_PredictionFor(C31_Unfilled(C31_CrossingLimit))

\* C31, amended: the amount available to the incoming limit order is the
\* unfilled amount of the resting opposite market orders and of the resting
\* opposite limit orders whose price crosses; expected_filled_amount is the
\* smaller of amount and that, will_match holds exactly when it is not zero
\* and will_fully_fill exactly when it equals amount.
C31_PredictionOverBothQueues ==
    last.op = "predict_limit_order_match" =>
        C31_PredictionFor(C31_Unfilled(C31_OppositeMarket) + C31_Unfilled(C31_CrossingLimit))

\* A prediction that takes the incoming amount from a resting market order
\* and from a crossing, partly filled limit order
C31_Witness ==
    /\ last.op = "predict_limit_order_match"
    /\ C31_Unfilled(C31_OppositeMarket) > 0
    /\ \E o \in Range(C31_CrossingLimit) : o.filled_amount > 0
    /\ last.ret.will_match
    /\ Len(last.ret.matched_order_ids) = 2

\* --------------------------------------------------------------------- C32
\* C32: when the task of the Reconciler or of the Dispatcher has ended by a
\* fatal error, the process exits with a non-zero exit code; exit code 0
\* comes only from a clean shutdown on the termination signal.
C32_ExitCode ==
    process.main_pc = "exited" =>
        /\ (process.sync_handle = "error" \/ process.match_handle = "error")
               => process.exit_code # 0
        /\ process.exit_code = 0 => process.ctrl_c

\* --------------------------------------------------------------------- C33
\* A step that applies an OrderInserted event whose order the Replica holds
\* already at the tail of its level, as the cold sync read it from the
\* contract
C33_ReappliedStep ==
    /\ OrderBookEventStep
    /\ Head(events).kind = "OrderInserted"
    /\ Head(events).order_id \in DOMAIN replica.orders
    /\ replica.orders[Head(events).order_id].amount = Head(events).amount
    /\ replica.orders[Head(events).order_id].price_level = Head(events).price
    /\ replica.orders[Head(events).order_id].is_ask = Head(events).is_ask
    /\ get_price_level_key(Head(events).price, Head(events).is_ask)
           \in DOMAIN replica.price_levels
    /\ replica.price_levels[get_price_level_key(Head(events).price,
                                                Head(events).is_ask)].tail_order_id
           = Head(events).order_id

\* C33: applying an OrderBook event whose effect the Replica holds already
\* (the OrderInserted of an order the cold sync has read) leaves the Replica
\* unchanged: no total_volume grows a second time and no order names itself
\* as its neighbour.
C33_ReapplyLeavesReplica ==
    [][C33_ReappliedStep =>
          /\ replica' = replica
          /\ \A id \in DOMAIN replica'.orders :
                /\ replica'.orders[id].next_order_id # id
                /\ replica'.orders[id].prev_order_id # id]_vars

\* --------------------------------------------------------------------- C34
\* A step of simulate_remove_order
C34_RemoveStep == last'.op = "remove" /\ nextId' = nextId

\* No level, order or market FIFO of b names id
C34_InNoList(b, id) ==
    /\ \A key \in DOMAIN b.price_levels :
          b.price_levels[key].head_order_id # id /\ b.price_levels[key].tail_order_id # id
    /\ \A o \in DOMAIN b.orders :
          b.orders[o].next_order_id # id /\ b.orders[o].prev_order_id # id
    /\ id \notin {b.market_ask_head, b.market_ask_tail, b.market_bid_head, b.market_bid_tail}

\* The orders other than id that rest at the level of id, on its side
C34_LevelMates(b, id) ==
    {o \in DOMAIN b.orders \ {id} :
        /\ ~b.orders[o].is_market_order
        /\ b.orders[o].price_level = b.orders[id].price_level
        /\ b.g_side[o] = b.g_side[id]}

\* C34: simulate_remove_order with an id that is not in the order table
\* returns false and changes nothing; with the id of a resting limit order
\* and its side it returns true, the order leaves the table, no list names
\* its id any more, and its level is destroyed if no other order rests on it.
C34_RemoveOrder ==
    [][C34_RemoveStep =>
          /\ last'.ret = 0 => book' = book
          /\ last'.ret = 1 =>
                \E id \in DOMAIN book.orders :
                    /\ DOMAIN book'.orders = DOMAIN book.orders \ {id}
                    /\ (~book.orders[id].is_market_order /\ last'.is_ask = book.g_side[id]) =>
                          /\ C34_InNoList(book', id)
                          /\ C34_LevelMates(book, id) = {} =>
                                get_price_level_key(book.orders[id].price_level,
                                                    book.g_side[id])
                                    \notin DOMAIN book'.price_levels]_vars

\* ---- C35
\* The order a successful simulate_remove_order has deleted.
C35_Removed == CHOOSE id \in DOMAIN book.orders : id \notin DOMAIN book'.orders

\* A removal that deleted a market order which a market FIFO of its side
\* listed.
C35_MarketRemoveStep ==
    /\ C34_RemoveStep
    /\ last'.ret = 1
    /\ book.orders[C35_Removed].is_market_order
    /\ C35_Removed \in Range(get_market_orders(book, book.g_side[C35_Removed]))

C35_Without(q, id) == SelectSeq(q, LAMBDA o : o # id)

\* C35: removing a market order that rests in a market FIFO unlinks it: no
\* market head or tail names the removed id afterwards, and each market FIFO
\* lists the orders it listed before, less the removed one, in their order.
C35_MarketOrderUnlinked ==
    [][C35_MarketRemoveStep =>
          /\ C35_Removed \notin {book'.market_ask_head, book'.market_ask_tail,
                                 book'.market_bid_head, book'.market_bid_tail}
          /\ \A is_ask \in BOOLEAN :
                get_market_orders(book', is_ask)
                    = C35_Without(get_market_orders(book, is_ask), C35_Removed)]_vars

\* ---- C36
\* simulate_remove_order has been called for a limit order with the side it
\* does not rest on.
C36_OtherSideStep ==
    /\ C34_RemoveStep
    /\ \E id \in DOMAIN book.orders :
          /\ ~book.orders[id].is_market_order
          /\ last'.is_ask # book.g_side[id]
          /\ \/ book' = book
             \/ id \notin DOMAIN book'.orders

C36_Missing(b) ==
    {key \in DOMAIN b.price_levels :
        \E id \in {b.price_levels[key].head_order_id, b.price_levels[key].tail_order_id} :
            id # EMPTY /\ id \notin DOMAIN b.orders}

\* C36: a removal naming the other side of a resting limit order either
\* leaves the book unchanged or deletes the order with no level and no order
\* naming it; no level's head or tail names a missing order afterwards.
C36_NoLevelNamesMissingOrder ==
    [][C36_OtherSideStep =>
          /\ \/ book' = book
             \/ C34_InNoList(book', C35_Removed)
          /\ C36_Missing(book') = {}]_vars

\* ---- C37
\* The PriceLevelRemoved handler takes the event of a removed bid level while
\* the Replica holds a level on either side at the event's price.
C37_BidRemovedStep ==
    /\ OrderBookEventStep
    /\ Head(events).kind = "PriceLevelRemoved"
    /\ ~Head(events).is_ask
    /\ get_price_level_key(Head(events).price, TRUE) \in DOMAIN replica.price_levels
    /\ get_price_level_key(Head(events).price, FALSE) \in DOMAIN replica.price_levels

C37_AskLevels(r) == [key \in {k \in DOMAIN r.price_levels : KeyIsAsk(k)} |-> r.price_levels[key]]

\* C37: with an ask level and a bid level at one price in the Replica, the
\* PriceLevelRemoved event of the bid level removes the bid level and leaves
\* the ask levels, ask_head and ask_tail as they were.
C37_BidLevelRemoved ==
    [][C37_BidRemovedStep =>
          /\ get_price_level_key(Head(events).price, FALSE) \notin DOMAIN replica'.price_levels
          /\ C37_AskLevels(replica') = C37_AskLevels(replica)
          /\ replica'.ask_head = replica.ask_head
          /\ replica'.ask_tail = replica.ask_tail]_vars

\* ---- C38
\* A step of the Dispatcher
C38_DispatcherStep == engine_pc' # engine_pc

\* C38: no step of the Dispatcher takes a request the Reconciler added during
\* a batch away from the walk from queue_head: such a request, reachable
\* from the head before the step and still in the mirror after it, is
\* reachable from the head after it.
C38_LateRequestKept ==
    [][C38_DispatcherStep =>
          \A id \in g_late \cap DOMAIN queued_requests' :
              id \in ReachableIds(queued_requests, queue_head)
                  => id \in ReachableIds(queued_requests', queue_head')]_vars

\* ---- C39
\* The cold sync ends having read the order book of the contract
C39_ColdSyncStep ==
    /\ sync_pc = "syncing"
    /\ sync_pc' = "warm"
    /\ sequencer_events # <<>>

\* C39: when the cold sync has read the order book, the streams of the warm
\* phase hold no event of a block the reads have observed: every event left
\* for the handlers is of a block after the one the book was read at, so no
\* mutation reaches the Replica by the reads and again by an event.
C39_ObservedOnce ==
    [][C39_ColdSyncStep =>
          /\ replica' = sync_trading_pair_orderbook(book)
          /\ \A i \in 1..Len(events') : events'[i].block > chain_block]_vars

\* ---- C40
\* C40: every request of the mirror, whatever its kind, is eventually removed
\* from it by the batch that holds it.
C40_EveryRequestProcessed ==
    \A id \in 1..MaxOrders :
        (id \in DOMAIN queued_requests) ~> (id \notin DOMAIN queued_requests)

====
